---- MODULE Spec2Model ----
(***************************************************************************)
(* A model of the aggregation pipeline of ReviewAI:                        *)
(*   - core/cache.py          CacheManager (two-tier cache)                *)
(*   - core/price_service.py  NigerianPriceService.get_price_comparison    *)
(*   - core/scraping.py       ProductImageFetcher.fetch_product_images     *)
(*                                                                         *)
(* Python's Optional values are modelled as sequences of length 0 or 1:    *)
(* None is <<>> and a present value x is <<x>>.  Time is counted in whole  *)
(* hours (the unit of ttl_hours).                                          *)
(***************************************************************************)
EXTENDS Integers, Sequences, FiniteSets, TLC

VARIABLES
    memory_cache,   \* CacheManager.memory_cache: insertion-ordered dict, a sequence of [k, e]
    disk,           \* the files of CacheManager.cache_dir, by hashed key
    now,            \* datetime.now(timezone.utc), in hours
    lastOp,         \* what the last completed cache operation did and returned
    lastSet,        \* per logical key: the last set() not yet followed by invalidate/clear
    pc,             \* per thread: the statement it is at (concurrent cache use)
    loc,            \* per thread: its local variables
    svc             \* the service call in progress (price comparison or image fetch)

vars == <<memory_cache, disk, now, lastOp, lastSet, pc, loc, svc>>

----------------------------------------------------------------------------
(* Bounds of the model *)

\* the clock runs from 0 to MaxClock hours; explicit ttl_hours arguments range over
\* 0..MaxClock
MaxClock == 1
\* AppConfig.cache_max_size, scaled down (the default is 500)
cache_max_size == 1
\* AppConfig.cache_ttl_hours, scaled down (the default is 168)
cache_ttl_hours == 2

CacheKeys == {"a", "b"}
Values == {"v1", "v2"}
Threads == {"t1", "t2"}
\* calls each thread makes, and calls made on a service whose storefronts answer
\* from the larger menu
MaxCalls == 1
\* calls made in succession on a service whose storefronts answer from the smaller menu
MaxRepeat == 2
\* max_images arguments range over 1..MaxImages
MaxImages == 2
\* get_recommended_retailer is given comparisons of up to MaxOffers offers
MaxOffers == 2

None == <<>>
Some(x) == <<x>>

\* ttl_hours arguments: None or an int
TtlArgs == {None} \cup {Some(n) : n \in 0..MaxClock}

----------------------------------------------------------------------------
(* core/cache.py *)

\* hashlib.md5(key.encode()).hexdigest(): an injective digest of the key
get_cache_key(key) == <<"md5", key>>

HashedKeys == {get_cache_key(k) : k \in CacheKeys}

\* datetime.isoformat() and datetime.fromisoformat()
isoformat(t) == <<"iso", t>>
fromisoformat(s) == s[2]

\* the files of the cache directory
NoFile == [kind |-> "none"]
CorruptFile == [kind |-> "corrupt"]
JsonFile(entry) == [kind |-> "json", entry |-> entry]

\* dict operations on the insertion-ordered memory_cache
MemHas(mem, ck) == \E i \in 1..Len(mem) : mem[i].k = ck
MemIndex(mem, ck) == CHOOSE i \in 1..Len(mem) : mem[i].k = ck
MemGet(mem, ck) == mem[MemIndex(mem, ck)].e
MemDel(mem, ck) ==
    LET i == MemIndex(mem, ck)
    IN  SubSeq(mem, 1, i - 1) \o SubSeq(mem, i + 1, Len(mem))
\* d[ck] = e: an existing key keeps its position, a new key goes last
MemPut(mem, ck, e) ==
    IF MemHas(mem, ck)
    THEN [mem EXCEPT ![MemIndex(mem, ck)] = [k |-> ck, e |-> e]]
    ELSE Append(mem, [k |-> ck, e |-> e])
MemKeys(mem) == {mem[i].k : i \in 1..Len(mem)}

\* CacheManager._is_valid: now < timestamp + ttl_hours
is_valid(entry, t) == t < fromisoformat(entry.timestamp) + entry.ttl_hours

\* a variant of get that returns absent for an expired file without removing it
CacheGetKeepsExpired(mem, dsk, key, t, io) ==
    LET ck == get_cache_key(key)
        inMem == MemHas(mem, ck)
        memHit == inMem /\ is_valid(MemGet(mem, ck), t)
        mem1 == IF inMem /\ ~memHit THEN MemDel(mem, ck) ELSE mem
        file == dsk[ck]
    IN  IF memHit
        THEN [ret |-> Some(MemGet(mem, ck).data), raised |-> FALSE, mem |-> mem, disk |-> dsk]
        ELSE IF io = "stat_err"
        THEN [ret |-> None, raised |-> TRUE, mem |-> mem1, disk |-> dsk]
        ELSE IF file.kind = "none"
        THEN [ret |-> None, raised |-> FALSE, mem |-> mem1, disk |-> dsk]
        ELSE IF io = "gone"
        THEN [ret |-> None, raised |-> FALSE, mem |-> mem1,
              disk |-> [dsk EXCEPT ![ck] = NoFile]]
        ELSE IF io = "read_err" \/ file.kind = "corrupt"
        THEN [ret |-> None, raised |-> FALSE, mem |-> mem1, disk |-> dsk]
        ELSE IF is_valid(file.entry, t)
        THEN [ret |-> Some(file.entry.data), raised |-> FALSE,
              mem |-> MemPut(mem1, ck, file.entry), disk |-> dsk]
        ELSE [ret |-> None, raised |-> FALSE, mem |-> mem1, disk |-> dsk]

\* CacheManager.get.  io is what the durable tier does during the call:
\*   "ok", "stat_err" (stat of the file fails with EACCES), "read_err" (open or
\*   json.load fails), "gone" (file removed between exists() and open()),
\*   "unlink_err" (unlink fails)
CacheGet(mem, dsk, key, t, io) ==
    LET ck == get_cache_key(key)
        inMem == MemHas(mem, ck)
        memHit == inMem /\ is_valid(MemGet(mem, ck), t)
        mem1 == IF inMem /\ ~memHit THEN MemDel(mem, ck) ELSE mem
        file == dsk[ck]
    IN  IF memHit
        THEN [ret |-> Some(MemGet(mem, ck).data), raised |-> FALSE, mem |-> mem, disk |-> dsk]
        ELSE IF io = "stat_err"
        THEN \* cache_path.exists() is outside the try block
             [ret |-> None, raised |-> TRUE, mem |-> mem1, disk |-> dsk]
        ELSE IF file.kind = "none"
        THEN [ret |-> None, raised |-> FALSE, mem |-> mem1, disk |-> dsk]
        ELSE IF io = "gone"
        THEN [ret |-> None, raised |-> FALSE, mem |-> mem1,
              disk |-> [dsk EXCEPT ![ck] = NoFile]]
        ELSE IF io = "read_err" \/ file.kind = "corrupt"
        THEN [ret |-> None, raised |-> FALSE, mem |-> mem1, disk |-> dsk]
        ELSE IF is_valid(file.entry, t)
        THEN [ret |-> Some(file.entry.data), raised |-> FALSE,
              mem |-> MemPut(mem1, ck, file.entry), disk |-> dsk]
        ELSE IF io = "unlink_err"
        THEN [ret |-> None, raised |-> FALSE, mem |-> mem1, disk |-> dsk]
        ELSE [ret |-> None, raised |-> FALSE, mem |-> mem1,
              disk |-> [dsk EXCEPT ![ck] = NoFile]]

\* ttl = ttl_hours or self.config.cache_ttl_hours
EffectiveTtl(ttl_arg) ==
    IF ttl_arg = None \/ ttl_arg = Some(0) THEN cache_ttl_hours ELSE ttl_arg[1]

NewEntry(data, ttl_arg, t) ==
    [data |-> data, timestamp |-> isoformat(t), ttl_hours |-> EffectiveTtl(ttl_arg)]

\* the size limit of set(): drop next(iter(memory_cache)) when over the limit
EnforceLimit(mem) ==
    IF Len(mem) > cache_max_size THEN Tail(mem) ELSE mem

\* CacheManager.set.  io: "ok", "open_err" (open fails, file untouched),
\*   "dump_err" (json.dump fails midway, file left truncated)
CacheSet(mem, dsk, key, data, ttl_arg, t, io) ==
    LET ck == get_cache_key(key)
        entry == NewEntry(data, ttl_arg, t)
        mem1 == MemPut(mem, ck, entry)
        over == Len(mem1) > cache_max_size
        mem2 == EnforceLimit(mem1)
    IN  [mem |-> mem2,
         over |-> over,
         evicted |-> IF Len(mem2) < Len(mem1) THEN <<Head(mem1).k>> ELSE <<>>,
         disk |-> CASE io = "ok" -> [dsk EXCEPT ![ck] = JsonFile(entry)]
                    [] io = "open_err" -> dsk
                    [] OTHER -> [dsk EXCEPT ![ck] = CorruptFile],
         raised |-> FALSE]

\* CacheManager.invalidate.  io: "ok", "stat_err", "unlink_err"
CacheInvalidate(mem, dsk, key, io) ==
    LET ck == get_cache_key(key)
        mem1 == IF MemHas(mem, ck) THEN MemDel(mem, ck) ELSE mem
    IN  IF io = "stat_err"
        THEN [mem |-> mem1, disk |-> dsk, raised |-> TRUE]
        ELSE IF dsk[ck].kind = "none" \/ io = "unlink_err"
        THEN [mem |-> mem1, disk |-> dsk, raised |-> FALSE]
        ELSE [mem |-> mem1, disk |-> [dsk EXCEPT ![ck] = NoFile], raised |-> FALSE]

\* CacheManager.clear.  failing: the files whose unlink raises (swallowed)
CacheClear(mem, dsk, failing) ==
    [mem |-> <<>>,
     disk |-> [ck \in DOMAIN dsk |-> IF ck \in failing THEN dsk[ck] ELSE NoFile],
     raised |-> FALSE]

----------------------------------------------------------------------------
(* One CacheManager used by one caller at a time *)

GetIO == {"ok", "stat_err", "read_err", "gone", "unlink_err"}
SetIO == {"ok", "open_err", "dump_err"}
InvalidateIO == {"ok", "stat_err", "unlink_err"}

NoOp == [op |-> "none", key |-> "a", ret |-> None, raised |-> FALSE,
         over |-> FALSE, evicted |-> <<>>, at |-> 0, expired |-> FALSE,
         io_failed |-> FALSE]

IdleThreads == [t \in Threads |-> "idle"]
NoLocals == [t \in Threads |-> [op |-> "none", key |-> "a", data |-> "v1", ttl |-> None,
                                 entry |-> None, oldest |-> None, ret |-> None,
                                 returned |-> FALSE, calls |-> 0]]

\* the state of the try block of fetch_product_images: the images collected,
\* the number of sources queried, the sources queried with the count collected
\* before each, and whether no exception has ended the block
NoGather == [images |-> <<>>, net |-> 0, log |-> <<>>, open |-> TRUE]

\* the service object before its first call
NoCall ==
    [n |-> 0, kind |-> "none", pc |-> "idle", rapidapi_key |-> FALSE,
     product |-> "", include_global |-> FALSE, max_images |-> 0, key |-> None,
     gather |-> NoGather, ranked |-> <<>>,
     idx |-> 0, prices |-> <<>>, log |-> <<>>, gadded |-> 0, net |-> 0,
     served |-> FALSE, populated |-> FALSE, io_ok |-> TRUE,
     prev |-> None, result |-> None]

CacheInit ==
    /\ memory_cache = <<>>
    /\ disk = [ck \in HashedKeys |-> NoFile]
    /\ now = 0
    /\ lastOp = NoOp
    /\ lastSet = [k \in CacheKeys |-> None]
    /\ pc = IdleThreads
    /\ loc = NoLocals
    /\ svc = NoCall

\* an entry stored for the key, in either tier, is past its expiry
StoredExpired(mem, dsk, key, t) ==
    LET ck == get_cache_key(key)
    IN  \/ MemHas(mem, ck) /\ ~is_valid(MemGet(mem, ck), t)
        \/ dsk[ck].kind = "json" /\ ~is_valid(dsk[ck].entry, t)

\* the get went to the durable tier and reading or removing the file failed
FileFailure(mem, dsk, key, t, io) ==
    LET ck == get_cache_key(key)
    IN  /\ ~(MemHas(mem, ck) /\ is_valid(MemGet(mem, ck), t))
        /\ dsk[ck].kind # "none"
        /\ \/ io \in {"stat_err", "read_err"}
           \/ dsk[ck].kind = "corrupt" /\ io # "gone"
           \/ io = "unlink_err" /\ dsk[ck].kind = "json" /\ ~is_valid(dsk[ck].entry, t)

Get(key, io, track) ==
    LET r == CacheGet(memory_cache, disk, key, now, io)
    IN  /\ memory_cache' = r.mem
        /\ disk' = r.disk
        /\ lastOp' = IF track THEN lastOp ELSE
                   [NoOp EXCEPT !.op = "get", !.key = key, !.ret = r.ret, !.raised = r.raised,
                                !.at = now,
                                !.expired = StoredExpired(memory_cache, disk, key, now),
                                !.io_failed = FileFailure(memory_cache, disk, key, now, io)]
        /\ UNCHANGED <<now, lastSet, pc, loc, svc>>

Set(key, data, ttl_arg, io, track) ==
    LET r == CacheSet(memory_cache, disk, key, data, ttl_arg, now, io)
    IN  /\ memory_cache' = r.mem
        /\ disk' = r.disk
        /\ lastOp' = IF track THEN lastOp ELSE
                   [NoOp EXCEPT !.op = "set", !.key = key, !.raised = r.raised, !.over = r.over, !.evicted = r.evicted]
        /\ lastSet' = IF track
                      THEN [lastSet EXCEPT ![key] = Some([data |-> data, ttl |-> ttl_arg, at |-> now])]
                      ELSE lastSet
        /\ UNCHANGED <<now, pc, loc, svc>>

Invalidate(key, io, track) ==
    LET r == CacheInvalidate(memory_cache, disk, key, io)
    IN  /\ memory_cache' = r.mem
        /\ disk' = r.disk
        /\ lastOp' = IF track THEN lastOp ELSE
                   [NoOp EXCEPT !.op = "invalidate", !.key = key, !.raised = r.raised]
        /\ lastSet' = IF track THEN [lastSet EXCEPT ![key] = None] ELSE lastSet
        /\ UNCHANGED <<now, pc, loc, svc>>

Clear(failing, track) ==
    LET r == CacheClear(memory_cache, disk, failing)
    IN  /\ memory_cache' = r.mem
        /\ disk' = r.disk
        /\ lastOp' = IF track THEN lastOp ELSE
                   [NoOp EXCEPT !.op = "clear", !.raised = r.raised]
        /\ lastSet' = IF track THEN [k \in CacheKeys |-> None] ELSE lastSet
        /\ UNCHANGED <<now, pc, loc, svc>>

\* time passes
Tick ==
    /\ now < MaxClock
    /\ now' = now + 1
    /\ UNCHANGED <<memory_cache, disk, lastOp, lastSet, pc, loc, svc>>

\* track: which observer follows the calls: lastSet (read by the expiry properties) or
\* lastOp (read by the others, for which one value is enough to tell the entries apart)
CacheNext(track) ==
    \/ \E k \in CacheKeys, io \in GetIO : Get(k, io, track)
    \/ \E k \in CacheKeys, v \in (IF track THEN Values ELSE {"v1"}), ttl \in TtlArgs, io \in SetIO :
          Set(k, v, ttl, io, track)
    \/ \E k \in CacheKeys, io \in InvalidateIO : Invalidate(k, io, track)
    \/ \E failing \in SUBSET HashedKeys : Clear(failing, track)
    \/ Tick

SpecCache == CacheInit /\ [][CacheNext(FALSE)]_vars

SpecCacheTtl == CacheInit /\ [][CacheNext(TRUE)]_vars

----------------------------------------------------------------------------
(* One CacheManager used by several request threads at once.  A thread runs one   *)
(* call at a time; each action below is one statement of get, set or invalidate.  *)
(* The durable tier itself does not fail here: what a thread meets is what the    *)
(* other threads did.                                                             *)

Local(t) == loc[t]
Goto(t, label) == pc' = [pc EXCEPT ![t] = label]
\* the call of thread t raises and the thread is gone
Raise(t) == pc' = [pc EXCEPT ![t] = "raised"]
\* the call of thread t returns ret
Return(t, ret) ==
    /\ pc' = [pc EXCEPT ![t] = "idle"]
    /\ loc' = [loc EXCEPT ![t].ret = ret, ![t].returned = TRUE]

Call(t, op, key, data, ttl_arg) ==
    /\ pc[t] = "idle"
    /\ Local(t).calls < MaxCalls
    /\ pc' = [pc EXCEPT ![t] = CASE op = "get" -> "g1" [] op = "set" -> "s1" [] OTHER -> "i1"]
    /\ loc' = [loc EXCEPT ![t] = [op |-> op, key |-> key, data |-> data, ttl |-> ttl_arg,
                                   entry |-> None, oldest |-> None, ret |-> None,
                                   returned |-> FALSE, calls |-> Local(t).calls + 1]]
    /\ UNCHANGED <<memory_cache, disk, now, lastOp, lastSet, svc>>

\* get: if cache_key in self.memory_cache
G1(t) ==
    /\ pc[t] = "g1"
    /\ Goto(t, IF MemHas(memory_cache, get_cache_key(Local(t).key)) THEN "g2" ELSE "g5")
    /\ UNCHANGED <<memory_cache, disk, now, lastOp, lastSet, loc, svc>>

\* get: entry = self.memory_cache[cache_key]        (KeyError when the key is gone)
G2(t) ==
    LET ck == get_cache_key(Local(t).key)
    IN  /\ pc[t] = "g2"
        /\ IF MemHas(memory_cache, ck)
           THEN /\ Goto(t, "g3")
                /\ loc' = [loc EXCEPT ![t].entry = Some(MemGet(memory_cache, ck))]
           ELSE Raise(t) /\ UNCHANGED loc
        /\ UNCHANGED <<memory_cache, disk, now, lastOp, lastSet, svc>>

\* get: if self._is_valid(entry): return entry.get('data')
G3(t) ==
    /\ pc[t] = "g3"
    /\ IF is_valid(Local(t).entry[1], now)
       THEN Return(t, Some(Local(t).entry[1].data))
       ELSE Goto(t, "g4") /\ UNCHANGED loc
    /\ UNCHANGED <<memory_cache, disk, now, lastOp, lastSet, svc>>

\* get: del self.memory_cache[cache_key]            (KeyError when the key is gone)
G4(t) ==
    LET ck == get_cache_key(Local(t).key)
    IN  /\ pc[t] = "g4"
        /\ IF MemHas(memory_cache, ck)
           THEN Goto(t, "g5") /\ memory_cache' = MemDel(memory_cache, ck)
           ELSE Raise(t) /\ UNCHANGED memory_cache
        /\ UNCHANGED <<disk, now, lastOp, lastSet, loc, svc>>

\* get: if cache_path.exists()
G5(t) ==
    /\ pc[t] = "g5"
    /\ IF disk[get_cache_key(Local(t).key)].kind = "none"
       THEN Return(t, None)
       ELSE Goto(t, "g6") /\ UNCHANGED loc
    /\ UNCHANGED <<memory_cache, disk, now, lastOp, lastSet, svc>>

\* get: with open(cache_path) as f: entry = json.load(f)    (errors are caught)
G6(t) ==
    LET file == disk[get_cache_key(Local(t).key)]
    IN  /\ pc[t] = "g6"
        /\ IF file.kind = "json"
           THEN Goto(t, "g7") /\ loc' = [loc EXCEPT ![t].entry = Some(file.entry)]
           ELSE Return(t, None)
        /\ UNCHANGED <<memory_cache, disk, now, lastOp, lastSet, svc>>

\* get: if self._is_valid(entry)
G7(t) ==
    /\ pc[t] = "g7"
    /\ Goto(t, IF is_valid(Local(t).entry[1], now) THEN "g8" ELSE "g9")
    /\ UNCHANGED <<memory_cache, disk, now, lastOp, lastSet, loc, svc>>

\* get: self.memory_cache[cache_key] = entry; return entry.get('data')
G8(t) ==
    /\ pc[t] = "g8"
    /\ memory_cache' = MemPut(memory_cache, get_cache_key(Local(t).key), Local(t).entry[1])
    /\ Return(t, Some(Local(t).entry[1].data))
    /\ UNCHANGED <<disk, now, lastOp, lastSet, svc>>

\* get: cache_path.unlink(); return None            (a missing file is caught)
G9(t) ==
    /\ pc[t] = "g9"
    /\ disk' = [disk EXCEPT ![get_cache_key(Local(t).key)] = NoFile]
    /\ Return(t, None)
    /\ UNCHANGED <<memory_cache, now, lastOp, lastSet, svc>>

\* set: entry = {...}; self.memory_cache[cache_key] = entry
S1(t) ==
    LET entry == NewEntry(Local(t).data, Local(t).ttl, now)
    IN  /\ pc[t] = "s1"
        /\ memory_cache' = MemPut(memory_cache, get_cache_key(Local(t).key), entry)
        /\ loc' = [loc EXCEPT ![t].entry = Some(entry)]
        /\ Goto(t, "s2")
        /\ UNCHANGED <<disk, now, lastOp, lastSet, svc>>

\* set: if len(self.memory_cache) > self.config.cache_max_size
S2(t) ==
    /\ pc[t] = "s2"
    /\ Goto(t, IF Len(memory_cache) > cache_max_size THEN "s3" ELSE "s5")
    /\ UNCHANGED <<memory_cache, disk, now, lastOp, lastSet, loc, svc>>

\* set: oldest_key = next(iter(self.memory_cache))  (StopIteration on an empty dict)
S3(t) ==
    /\ pc[t] = "s3"
    /\ IF Len(memory_cache) > 0
       THEN Goto(t, "s4") /\ loc' = [loc EXCEPT ![t].oldest = Some(Head(memory_cache).k)]
       ELSE Raise(t) /\ UNCHANGED loc
    /\ UNCHANGED <<memory_cache, disk, now, lastOp, lastSet, svc>>

\* set: del self.memory_cache[oldest_key]           (KeyError when the key is gone)
S4(t) ==
    /\ pc[t] = "s4"
    /\ IF MemHas(memory_cache, Local(t).oldest[1])
       THEN Goto(t, "s5") /\ memory_cache' = MemDel(memory_cache, Local(t).oldest[1])
       ELSE Raise(t) /\ UNCHANGED memory_cache
    /\ UNCHANGED <<disk, now, lastOp, lastSet, loc, svc>>

\* set: open(cache_path, 'w') truncates the file
S5(t) ==
    /\ pc[t] = "s5"
    /\ disk' = [disk EXCEPT ![get_cache_key(Local(t).key)] = CorruptFile]
    /\ Goto(t, "s6")
    /\ UNCHANGED <<memory_cache, now, lastOp, lastSet, loc, svc>>

\* set: json.dump(entry, f) and close.  When another thread is writing the same file
\* the bytes of the two may mix.
S6(t) ==
    LET ck == get_cache_key(Local(t).key)
        shared == \E u \in Threads \ {t} : pc[u] = "s6" /\ get_cache_key(Local(u).key) = ck
    IN  /\ pc[t] = "s6"
        /\ \E file \in {JsonFile(Local(t).entry[1])} \cup (IF shared THEN {CorruptFile} ELSE {}) :
              disk' = [disk EXCEPT ![ck] = file]
        /\ Return(t, None)
        /\ UNCHANGED <<memory_cache, now, lastOp, lastSet, svc>>

\* invalidate: if cache_key in self.memory_cache
I1(t) ==
    /\ pc[t] = "i1"
    /\ Goto(t, IF MemHas(memory_cache, get_cache_key(Local(t).key)) THEN "i2" ELSE "i3")
    /\ UNCHANGED <<memory_cache, disk, now, lastOp, lastSet, loc, svc>>

\* invalidate: del self.memory_cache[cache_key]     (KeyError when the key is gone)
I2(t) ==
    LET ck == get_cache_key(Local(t).key)
    IN  /\ pc[t] = "i2"
        /\ IF MemHas(memory_cache, ck)
           THEN Goto(t, "i3") /\ memory_cache' = MemDel(memory_cache, ck)
           ELSE Raise(t) /\ UNCHANGED memory_cache
        /\ UNCHANGED <<disk, now, lastOp, lastSet, loc, svc>>

\* invalidate: if cache_path.exists()
I3(t) ==
    /\ pc[t] = "i3"
    /\ IF disk[get_cache_key(Local(t).key)].kind = "none"
       THEN Return(t, None)
       ELSE Goto(t, "i4") /\ UNCHANGED loc
    /\ UNCHANGED <<memory_cache, disk, now, lastOp, lastSet, svc>>

\* invalidate: cache_path.unlink()                  (a missing file is caught)
I4(t) ==
    /\ pc[t] = "i4"
    /\ disk' = [disk EXCEPT ![get_cache_key(Local(t).key)] = NoFile]
    /\ Return(t, None)
    /\ UNCHANGED <<memory_cache, now, lastOp, lastSet, svc>>

ConcNext ==
    \/ \E t \in Threads, k \in CacheKeys : Call(t, "get", k, "v1", None)
    \/ \E t \in Threads, k \in CacheKeys, v \in Values, ttl \in {None, Some(1)} :
          Call(t, "set", k, v, ttl)
    \/ \E t \in Threads, k \in CacheKeys : Call(t, "invalidate", k, "v1", None)
    \/ \E t \in Threads :
          \/ G1(t) \/ G2(t) \/ G3(t) \/ G4(t) \/ G5(t) \/ G6(t) \/ G7(t) \/ G8(t) \/ G9(t)
          \/ S1(t) \/ S2(t) \/ S3(t) \/ S4(t) \/ S5(t) \/ S6(t)
          \/ I1(t) \/ I2(t) \/ I3(t) \/ I4(t)

\* What the threads find: entries written at hour 0 with a ttl of one hour, each in
\* both tiers or only in the durable one, at a time when they are valid or expired.
ConcInit ==
    /\ now \in 0..MaxClock
    /\ \E onDisk \in SUBSET CacheKeys :
          \E inMem \in SUBSET onDisk :
             /\ disk = [ck \in HashedKeys |->
                           IF \E k \in onDisk : ck = get_cache_key(k)
                           THEN JsonFile(NewEntry("v1", Some(1), 0)) ELSE NoFile]
             /\ \E order \in [1..Cardinality(inMem) -> inMem] :
                   /\ \A i, j \in DOMAIN order : i # j => order[i] # order[j]
                   /\ memory_cache = [i \in DOMAIN order |->
                           [k |-> get_cache_key(order[i]), e |-> NewEntry("v1", Some(1), 0)]]
    /\ lastOp = NoOp
    /\ lastSet = [k \in CacheKeys |-> None]
    /\ pc = IdleThreads
    /\ loc = NoLocals
    /\ svc = NoCall

SpecConc == ConcInit /\ [][ConcNext]_vars

----------------------------------------------------------------------------
(* Properties of the cache used by one caller at a time *)

\* the ttl a caller asked for: the argument, or the configured default when omitted
RequestedTtl(ttl_arg) == IF ttl_arg = None THEN cache_ttl_hours ELSE ttl_arg[1]

\* C1: after set(k, v, ttl), a get(k) issued before ttl has elapsed returns v, and a
\* get(k) issued once ttl has elapsed (no set of k in between) returns absent.  The
\* get is one whose own reads of the durable tier succeed.
C1_SetThenGetUntilTtl ==
    \A k \in CacheKeys :
        lastSet[k] # None =>
            LET s == lastSet[k][1]
                r == CacheGet(memory_cache, disk, k, now, "ok")
            IN  IF now < s.at + RequestedTtl(s.ttl)
                THEN r.ret = Some(s.data)
                ELSE r.ret = None

\* C2: a set that makes the in-memory tier exceed cache_max_size evicts exactly one
\* entry, and never the entry it has just written.
C2_EvictsOneNeverJustWritten ==
    (lastOp.op = "set" /\ lastOp.over) =>
        /\ Len(lastOp.evicted) = 1
        /\ lastOp.evicted[1] # get_cache_key(lastOp.key)

\* C3: the in-memory tier never holds more than cache_max_size entries.
C3_MemoryBounded == Len(memory_cache) <= cache_max_size

\* C4: no failure of the durable tier propagates out of a cache operation, and a get
\* that meets one returns absent.
C4_NoIOFailurePropagates == ~lastOp.raised

----------------------------------------------------------------------------
(* Properties of the cache used by several threads *)

\* C5: when requests interleave get, set and invalidate on one cache, no call raises,
\* and every get returns absent or a value that a set wrote.
C5_ConcurrentCallsDoNotRaise ==
    \A t \in Threads :
        /\ pc[t] # "raised"
        /\ (Local(t).op = "get" /\ Local(t).returned /\ Local(t).ret # None)
               => Local(t).ret[1] \in Values

----------------------------------------------------------------------------
(* core/config.py, core/price_service.py: the retailers and their scrapers *)

Products == {"p"}

\* Constants.NIGERIAN_RETAILERS in its order: three retailers that have a scraper
\* and one (spar) that _fetch_retailer_price has no branch for
NIGERIAN_RETAILERS == <<"jumia", "konga", "slot", "spar">>

RetailerName(rid) ==
    CASE rid = "jumia" -> "Jumia Nigeria"
      [] rid = "konga" -> "Konga"
      [] rid = "slot" -> "Slot Nigeria"
      [] OTHER -> "Spar Nigeria"

AdapterIds == {"jumia", "konga", "slot"}

\* what a storefront answers: the request or the parsing raises, the page shows no
\* product, or it shows a product whose price text parse_naira turns into None
\* (no digits), 0 or a positive amount
ErrorPage == [kind |-> "error", price |-> None]
NoProductPage == [kind |-> "no_product", price |-> None]
ProductPage(price) == [kind |-> "product", price |-> price]
NoRequest == [kind |-> "no_request", price |-> None]

\* the answers each storefront may give; rich selects the larger menu
Pages(rid, rich) ==
    CASE rid = "jumia" ->
            IF rich
            THEN {ErrorPage, ProductPage(None), ProductPage(Some(0)), ProductPage(Some(100))}
            ELSE {ErrorPage, ProductPage(Some(100))}
      [] rid = "konga" ->
            IF rich
            THEN {ErrorPage, NoProductPage, ProductPage(Some(120))}
            ELSE {NoProductPage, ProductPage(Some(120))}
      [] rid = "slot" ->
            IF rich
            THEN {ErrorPage, ProductPage(Some(200))}
            ELSE {ErrorPage, ProductPage(Some(200))}
      [] OTHER -> {NoRequest}

\* the outcome of a Python call: an exception, or a returned value
Exc == [exc |-> TRUE, val |-> None]
Ok(v) == [exc |-> FALSE, val |-> v]
\* try: ... except Exception: return None
Catch(r) == IF r.exc THEN Ok(None) ELSE r

\* truth value of an Optional[float]
Truthy(price) == price # None /\ price[1] # 0

\* RetailerPrice(...)
RetailerPrice(rid, name, price, t) ==
    [retailer_id |-> rid, retailer_name |-> name, price_naira |-> price,
     last_checked |-> t]

\* _scrape_jumia: builds the offer whatever parse_naira returned
scrape_jumia(rid, page, t) ==
    Catch(CASE page.kind = "error" -> Exc
            [] page.kind = "no_product" -> Ok(None)
            [] OTHER -> Ok(Some(RetailerPrice(rid, RetailerName(rid), page.price, t))))

\* _scrape_konga, _scrape_slot: if not price: return None
scrape_priced(rid, page, t) ==
    Catch(CASE page.kind = "error" -> Exc
            [] page.kind = "no_product" -> Ok(None)
            [] ~Truthy(page.price) -> Ok(None)
            [] OTHER -> Ok(Some(RetailerPrice(rid, RetailerName(rid), page.price, t))))

\* _fetch_retailer_price
fetch_retailer_price(rid, page, t) ==
    Catch(IF rid = "jumia" THEN scrape_jumia(rid, page, t)
          ELSE IF rid \in {"konga", "slot"} THEN scrape_priced(rid, page, t)
          ELSE Ok(None))

\* the body of the retailer loop: append the offer if there is one; an exception
\* is logged and the loop continues
LoopBody(prices, r) ==
    IF r.exc THEN prices
    ELSE IF r.val # None THEN Append(prices, r.val[1])
    ELSE prices

\* a variant of the loop that stops at the first retailer without an offer
LoopNextBreaks(idx, r) ==
    IF r.exc \/ r.val = None THEN Len(NIGERIAN_RETAILERS) + 1 ELSE idx + 1

\* the retailer the loop turns to next: always the following one
LoopNext(idx, r) == idx + 1

----------------------------------------------------------------------------
(* core/price_service.py: the global sources (RapidAPI), core/currency.py *)

\* Constants.USD_TO_NGN_FALLBACK
USD_TO_NGN_FALLBACK == 1600

\* CurrencyFormatter.convert_to_naira with the fallback rates {'NGN': fallback}
convert_to_naira(amount, code) ==
    IF code = "NGN" THEN amount ELSE amount * USD_TO_NGN_FALLBACK

\* cache keys of the service: the f-strings f"all_prices_{name}_{flag}",
\* f"amazon_{name}", f"multiplatform_{name}", f"images_{name}", hashed once by
\* the service before the cache hashes them again
PriceKey(product, include_global) ==
    get_cache_key(<<"all_prices", product, IF include_global THEN "True" ELSE "False">>)
AmazonKey(product) == get_cache_key(<<"amazon", product, "">>)
MultiKey(product) == get_cache_key(<<"multiplatform", product, "">>)
ImagesKey(product) == get_cache_key(<<"images", product, "">>)

ServiceKeys ==
    UNION {{PriceKey(p, TRUE), PriceKey(p, FALSE), AmazonKey(p), MultiKey(p), ImagesKey(p)} :
           p \in Products}

\* model_to_jsonable and Model(**data) for RetailerPrice: the datetime becomes an
\* ISO string and is parsed back
OfferToJson(o) == [o EXCEPT !.last_checked = isoformat(@)]
OfferFromJson(j) == [j EXCEPT !.last_checked = fromisoformat(@)]
OffersToJson(os) == [i \in DOMAIN os |-> OfferToJson(os[i])]
OffersFromJson(js) == [i \in DOMAIN js |-> OfferFromJson(js[i])]

\* what the RapidAPI endpoints answer: an error, or the first product's price in
\* USD (Amazon) / the stores' prices in NGN (multi-platform)
AmazonPages(rich) == IF rich THEN {ErrorPage, ProductPage(Some(1))} ELSE {ErrorPage}
MultiPages(rich) == IF rich THEN {ErrorPage, ProductPage(Some(150))} ELSE {ErrorPage}

\* cache faults met by the service's calls
SvcGetIO == {"ok", "stat_err", "read_err"}
SvcSetIO == {"ok", "open_err"}

\* RapidAPIPriceService.get_amazon_price; returns the offer (or None), or raises
\* when the cache lookup in front of the try block raises
get_amazon_price(mem, dsk, product, page, t, gio, sio) ==
    LET g == CacheGet(mem, dsk, AmazonKey(product), t, gio)
        offer == RetailerPrice("amazon", "Amazon (US)",
                               Some(convert_to_naira(page.price[1], "USD")), t)
        s == CacheSet(g.mem, g.disk, AmazonKey(product), OfferToJson(offer), None, t, sio)
    IN  IF g.raised
        THEN [exc |-> TRUE, val |-> None, mem |-> g.mem, disk |-> g.disk, net |-> 0]
        ELSE IF g.ret # None
        THEN [exc |-> FALSE, val |-> Some(OfferFromJson(g.ret[1])),
              mem |-> g.mem, disk |-> g.disk, net |-> 0]
        ELSE IF page.kind = "product"
        THEN [exc |-> FALSE, val |-> Some(offer), mem |-> s.mem, disk |-> s.disk, net |-> 1]
        ELSE [exc |-> FALSE, val |-> None, mem |-> g.mem, disk |-> g.disk, net |-> 1]

\* RapidAPIPriceService.get_multi_platform_prices; returns the list of offers
get_multi_platform_prices(mem, dsk, product, page, t, gio, sio) ==
    LET g == CacheGet(mem, dsk, MultiKey(product), t, gio)
        results == <<RetailerPrice("store", "Store",
                                   Some(convert_to_naira(page.price[1], "NGN")), t)>>
        s == CacheSet(g.mem, g.disk, MultiKey(product), OffersToJson(results), None, t, sio)
    IN  IF g.raised
        THEN [exc |-> TRUE, val |-> <<>>, mem |-> g.mem, disk |-> g.disk, net |-> 0]
        ELSE IF g.ret # None
        THEN [exc |-> FALSE, val |-> OffersFromJson(g.ret[1]),
              mem |-> g.mem, disk |-> g.disk, net |-> 0]
        ELSE IF page.kind = "product"
        THEN [exc |-> FALSE, val |-> results, mem |-> s.mem, disk |-> s.disk, net |-> 1]
        ELSE [exc |-> FALSE, val |-> <<>>, mem |-> g.mem, disk |-> g.disk, net |-> 1]

----------------------------------------------------------------------------
(* core/price_service.py: the statistics of get_price_comparison *)

\* a variant that filters on truth value, dropping offers priced 0
ValidPricesTruthy(prices) ==
    LET sel == SelectSeq(prices, LAMBDA p : Truthy(p.price_naira))
    IN  [i \in DOMAIN sel |-> sel[i].price_naira[1]]

\* [p.price_naira for p in prices if p.price_naira is not None]
valid_prices(prices) ==
    LET sel == SelectSeq(prices, LAMBDA p : p.price_naira # None)
    IN  [i \in DOMAIN sel |-> sel[i].price_naira[1]]

\* the builtins min, max and sum on a non-empty list of numbers
RECURSIVE PyMin(_)
PyMin(xs) ==
    IF Len(xs) = 1 THEN xs[1]
    ELSE LET m == PyMin(Tail(xs)) IN IF m < Head(xs) THEN m ELSE Head(xs)

RECURSIVE PyMax(_)
PyMax(xs) ==
    IF Len(xs) = 1 THEN xs[1]
    ELSE LET m == PyMax(Tail(xs)) IN IF m > Head(xs) THEN m ELSE Head(xs)

RECURSIVE PySum(_)
PySum(xs) == IF xs = <<>> THEN 0 ELSE Head(xs) + PySum(Tail(xs))

\* sum(valid_prices) / len(valid_prices), kept as an exact fraction
Mean(xs) == [num |-> PySum(xs), den |-> Len(xs)]

\* the key of the best-deal search, x.price_naira or float('inf'): None stands for
\* infinity
BestKey(p) == IF Truthy(p.price_naira) THEN p.price_naira ELSE None
KeyLess(a, b) == a # None /\ (b = None \/ a[1] < b[1])

\* min(prices, key=...): the first offer whose key is minimal
RECURSIVE MinByKey(_)
MinByKey(xs) ==
    IF Len(xs) = 1 THEN xs[1]
    ELSE LET m == MinByKey(Tail(xs))
         IN  IF KeyLess(BestKey(m), BestKey(Head(xs))) THEN m ELSE Head(xs)

\* a variant without the "if prices else None" guard: min() of an empty list raises
BestDealUnguarded(prices) ==
    IF prices = <<>> THEN Exc ELSE Ok(Some(MinByKey(prices).retailer_name))

\* min(prices, key=...).retailer_name if prices else None
best_deal_retailer(prices) ==
    IF prices # <<>> THEN Ok(Some(MinByKey(prices).retailer_name)) ELSE Ok(None)

\* a variant whose first threshold is strict: a spread of exactly 20 is only "good"
DealQualityStrict(valid) ==
    IF Len(valid) >= 2
    THEN LET sum == PySum(valid)
             gap == (sum - Len(valid) * PyMin(valid)) * 100
         IN  IF sum # 0 /\ gap > 20 * sum THEN Some("excellent")
             ELSE IF sum # 0 /\ gap >= 10 * sum THEN Some("good")
             ELSE Some("normal")
    ELSE None

\* deal quality from the spread ((avg - lowest) / avg) * 100, compared exactly:
\* with avg = sum/n > 0, spread >= x iff (sum - n * lowest) * 100 >= x * sum
deal_quality(valid) ==
    IF Len(valid) >= 2
    THEN LET sum == PySum(valid)
             gap == (sum - Len(valid) * PyMin(valid)) * 100
         IN  IF sum # 0 /\ gap >= 20 * sum THEN Some("excellent")
             ELSE IF sum # 0 /\ gap >= 10 * sum THEN Some("good")
             ELSE Some("normal")
    ELSE None

\* the PriceComparison built on a miss
BuildComparison(product, prices, t) ==
    LET valid == valid_prices(prices)
        best == best_deal_retailer(prices)
    IN  IF best.exc THEN Exc
        ELSE Ok([product_name |-> product,
                 prices |-> prices,
                 lowest_price |-> IF valid # <<>> THEN Some(PyMin(valid)) ELSE None,
                 highest_price |-> IF valid # <<>> THEN Some(PyMax(valid)) ELSE None,
                 average_price |-> IF valid # <<>> THEN Some(Mean(valid)) ELSE None,
                 best_deal_retailer |-> best.val,
                 price_last_updated |-> t,
                 deal_quality |-> deal_quality(valid)])

\* a variant of the reload that loses the deal quality
ComparisonFromJsonLossy(j) ==
    [j EXCEPT !.prices = OffersFromJson(@), !.price_last_updated = fromisoformat(@),
              !.deal_quality = None]

\* model_to_jsonable(comparison) and PriceComparison(**cached_prices)
ComparisonFromJson(j) ==
    [j EXCEPT !.prices = OffersFromJson(@), !.price_last_updated = fromisoformat(@)]

ComparisonToJson(c) ==
    [c EXCEPT !.prices = OffersToJson(@), !.price_last_updated = isoformat(@)]

----------------------------------------------------------------------------
(* core/scraping.py: ProductImageFetcher.fetch_product_images *)

\* ProductImage(url, thumbnail_url, source, alt_text); width and height are not
\* read by the fetcher
ProductImage(url, thumb, source, alt) ==
    [url |-> url, thumbnail_url |-> thumb, source |-> source, alt_text |-> alt]

\* the images the sources may find: on the brand's own domain, on a preferred
\* retailer host, elsewhere on the web, and a wallpaper
BrandImage == ProductImage("brand.com/p", None, "brand", Some("p"))
RetailImage == ProductImage("jumia.com.ng/p", Some("t"), "retailer", Some("p"))
WebImage == ProductImage("web.com/p", None, "duckduckgo", Some("p"))
BrandImageAgain == ProductImage("brand.com/p", None, "duckduckgo", Some("p"))
Wallpaper == ProductImage("web.com/wallpaper", None, "bing", Some("p"))

\* _rank_images.score for these images: +100 brand domain, +40 preferred host,
\* +8 positive path term ("p" stands for a product path), -20 negative term;
\* for the images of "Apple iPhone 15" also +5 for each name token in the url
Score(im) ==
    CASE im.url = "brand.com/p" -> 108
      [] im.url = "jumia.com.ng/p" -> 48
      [] im.url = "web.com/p" -> 8
      [] im.url = "https://apple.com/iphone-15.jpg" -> 155
      [] im.url = "https://apple.com/iphone-15-case.jpg" -> 155
      [] im.url = "https://apple.com/logo.jpg" -> 125
      [] im.url = "https://jumia.com.ng/iphone-15.jpg" -> 50
      [] im.url = "https://jumia.com.ng/iphone-14.jpg" -> 45
      [] im.url \in {"https://web.com/phone-15.jpg", "https://web.com/a15.jpg",
                     "https://web.com/galaxy-15.jpg"} -> 5
      [] OTHER -> 0 - 20

\* what each source helper returns, in the order brand, retailers, DuckDuckGo,
\* Bing; an exception leaving a helper ends the try block
SourceOutcomes(rich) ==
    IF rich
    THEN <<{Exc, Ok(<<>>), Ok(<<BrandImage>>)},
           {Ok(<<>>), Ok(<<RetailImage>>)},
           {Ok(<<>>), Ok(<<WebImage, BrandImageAgain>>)},
           {Ok(<<>>), Ok(<<Wallpaper>>)}>>
    ELSE <<{Exc, Ok(<<BrandImage>>)},
           {Ok(<<RetailImage>>)},
           {Ok(<<>>)},
           {Ok(<<>>)}>>

\* a variant that queries every source whatever has been collected
GatherOneAlways(st, k, out, max_images) ==
    IF ~st.open THEN st
    ELSE [images |-> IF out.exc THEN st.images ELSE st.images \o out.val,
          net |-> st.net + 1,
          log |-> Append(st.log, [source |-> k, before |-> Len(st.images)]),
          open |-> ~out.exc]

\* one source of the try block, the k-th: the brand site always, each later
\* source only while fewer than max_images images are collected; out is what
\* the source's helper returns or raises
GatherOne(st, k, out, max_images) ==
    IF ~st.open \/ (k > 1 /\ Len(st.images) >= max_images) THEN st
    ELSE [images |-> IF out.exc THEN st.images ELSE st.images \o out.val,
          net |-> st.net + 1,
          log |-> Append(st.log, [source |-> k, before |-> Len(st.images)]),
          open |-> ~out.exc]

RECURSIVE GatherFrom(_, _, _, _)
GatherFrom(st, k, outs, max_images) ==
    IF outs = <<>> THEN st
    ELSE GatherFrom(GatherOne(st, k, Head(outs), max_images), k + 1, Tail(outs), max_images)

\* the try block over the four sources
Gather(images, net, outs, max_images) ==
    GatherFrom([NoGather EXCEPT !.images = images, !.net = net], 1, outs, max_images)

\* _dedup: keeps the first image of each (url or "", thumbnail_url or "") that has a url
RECURSIVE DedupFrom(_, _)
DedupFrom(imgs, seen) ==
    IF imgs = <<>> THEN <<>>
    ELSE LET im == Head(imgs)
             key == <<im.url, IF im.thumbnail_url = None THEN "" ELSE im.thumbnail_url[1]>>
         IN  IF key \notin seen /\ im.url # ""
             THEN <<im>> \o DedupFrom(Tail(imgs), seen \cup {key})
             ELSE DedupFrom(Tail(imgs), seen)

\* a variant that keeps the last image of each key
DedupKeepsLast(imgs) ==
    LET rev(xs) == [i \in DOMAIN xs |-> xs[Len(xs) + 1 - i]]
    IN  rev(DedupFrom(rev(imgs), {}))

Dedup(imgs) == DedupFrom(imgs, {})

\* sorted(images, key=score, reverse=True): stable, highest score first
RECURSIVE InsertRanked(_, _)
InsertRanked(im, ranked) ==
    IF ranked = <<>> THEN <<im>>
    ELSE IF Score(Head(ranked)) > Score(im)
    THEN <<Head(ranked)>> \o InsertRanked(im, Tail(ranked))
    ELSE <<im>> \o ranked

RECURSIVE rank_images(_)
rank_images(imgs) ==
    IF imgs = <<>> THEN <<>> ELSE InsertRanked(Head(imgs), rank_images(Tail(imgs)))

\* images[:n]
Take(xs, n) == SubSeq(xs, 1, IF n < Len(xs) THEN n ELSE Len(xs))

\* model_to_jsonable(img) gives a dict, ProductImage(**img) the model again
ImageToJson(im) == <<"dict", im>>
ImageFromJson(j) == j[2]
ImagesToJson(ims) == [i \in DOMAIN ims |-> ImageToJson(ims[i])]
ImagesFromJson(js) == [i \in DOMAIN js |-> ImageFromJson(js[i])]

\* fetch_product_images
fetch_product_images(mem, dsk, product, max_images, outs, t, gio, sio) ==
    LET g == CacheGet(mem, dsk, ImagesKey(product), t, gio)
        got == Gather(<<>>, 0, outs, max_images)
        images == rank_images(Dedup(got.images))
        s == CacheSet(g.mem, g.disk, ImagesKey(product),
                      ImagesToJson(Take(images, max_images)), None, t, sio)
    IN  IF g.raised
        THEN [exc |-> TRUE, val |-> <<>>, hit |-> FALSE, wrote |-> FALSE,
              mem |-> g.mem, disk |-> g.disk, net |-> 0]
        ELSE IF g.ret # None /\ g.ret[1] # <<>>
        THEN [exc |-> FALSE, val |-> ImagesFromJson(g.ret[1]), hit |-> TRUE, wrote |-> FALSE,
              mem |-> g.mem, disk |-> g.disk, net |-> 0]
        ELSE IF images # <<>>
        THEN [exc |-> FALSE, val |-> Take(images, max_images), hit |-> FALSE, wrote |-> TRUE,
              mem |-> s.mem, disk |-> s.disk, net |-> got.net]
        ELSE [exc |-> FALSE, val |-> <<>>, hit |-> FALSE, wrote |-> FALSE,
              mem |-> g.mem, disk |-> g.disk, net |-> got.net]

----------------------------------------------------------------------------
(* The service: calls of get_price_comparison and fetch_product_images *)

ServiceHashedKeys == {get_cache_key(k) : k \in ServiceKeys}

CallBound(rich) == IF rich THEN MaxCalls ELSE MaxRepeat

\* no call is in progress
Between == svc.pc \in {"idle", "done", "raised"}

\* the result of the call just completed, when the coming call repeats it (same
\* operation, same cache key) and it was served from the cache or wrote to it
Previous(kind, key) ==
    IF svc.pc = "done" /\ svc.kind = kind /\ svc.key = Some(key) /\ svc.served
    THEN svc.result ELSE None

\* a new service over an empty cache directory; RAPIDAPI_KEY is set or not
PriceInit(rich) ==
    /\ memory_cache = <<>>
    /\ disk = [ck \in ServiceHashedKeys |-> NoFile]
    /\ now = 0
    /\ lastOp = NoOp
    /\ lastSet = [k \in CacheKeys |-> None]
    /\ pc = IdleThreads
    /\ loc = NoLocals
    /\ \E rk \in (IF rich THEN {TRUE} ELSE BOOLEAN) : svc = [NoCall EXCEPT !.rapidapi_key = rk]

\* get_price_comparison, lines 162-169: the cache lookup
StartPrice(product, include_global, io, rich) ==
    /\ Between
    /\ svc.n < CallBound(rich)
    /\ LET key == PriceKey(product, include_global)
           g == CacheGet(memory_cache, disk, key, now, io)
           probe == CacheGet(memory_cache, disk, key, now, "ok")
           hit == ~g.raised /\ g.ret # None
       IN  /\ memory_cache' = g.mem
           /\ disk' = g.disk
           /\ svc' = [n |-> svc.n + 1, kind |-> "price",
                      pc |-> IF g.raised THEN "raised" ELSE IF hit THEN "done" ELSE "fetch",
                      rapidapi_key |-> svc.rapidapi_key,
                      product |-> product, include_global |-> include_global,
                      max_images |-> 0, gather |-> NoGather, ranked |-> <<>>,
                      key |-> Some(key), idx |-> 1, prices |-> <<>>, log |-> <<>>,
                      gadded |-> 0, net |-> 0,
                      served |-> hit,
                      populated |-> /\ Previous("price", key) # None
                                    /\ probe.ret = Some(ComparisonToJson(Previous("price", key)[1])),
                      io_ok |-> g = probe,
                      prev |-> Previous("price", key),
                      result |-> IF hit THEN Some(ComparisonFromJson(g.ret[1])) ELSE None]
    /\ UNCHANGED <<now, lastOp, lastSet, pc, loc>>

\* one iteration of the retailer loop, lines 173-182
FetchStep(rich) ==
    /\ svc.kind = "price" /\ svc.pc = "fetch"
    /\ \E page \in Pages(NIGERIAN_RETAILERS[svc.idx], rich) :
       LET rid == NIGERIAN_RETAILERS[svc.idx]
           r == fetch_retailer_price(rid, page, now)
           next == LoopNext(svc.idx, r)
       IN  svc' = [svc EXCEPT
                     !.prices = LoopBody(@, r),
                     !.idx = next,
                     !.log = Append(@, [rid |-> rid, page |-> page]),
                     !.net = @ + (IF rid \in AdapterIds THEN 1 ELSE 0),
                     !.pc = IF next <= Len(NIGERIAN_RETAILERS) THEN "fetch"
                            ELSE IF svc.include_global /\ svc.rapidapi_key THEN "global"
                            ELSE "stats"]
    /\ UNCHANGED <<memory_cache, disk, now, lastOp, lastSet, pc, loc>>

\* the global block, lines 185-193: Amazon.  An exception leaves the try block,
\* whose handler only logs
AmazonStep(apage, gio, sio) ==
    /\ svc.kind = "price" /\ svc.pc = "global"
    /\ LET a == get_amazon_price(memory_cache, disk, svc.product, apage, now, gio, sio)
       IN  /\ memory_cache' = a.mem
           /\ disk' = a.disk
           /\ svc' = [svc EXCEPT
                        !.prices = IF a.val # None THEN Append(@, a.val[1]) ELSE @,
                        !.gadded = IF a.val # None THEN 1 ELSE 0,
                        !.net = @ + a.net,
                        !.pc = IF a.exc THEN "stats" ELSE "multi"]
    /\ UNCHANGED <<now, lastOp, lastSet, pc, loc>>

\* the global block, lines 195-201: the multi-platform API
MultiStep(mpage, gio, sio) ==
    /\ svc.kind = "price" /\ svc.pc = "multi"
    /\ LET m == get_multi_platform_prices(memory_cache, disk, svc.product, mpage,
                                          now, gio, sio)
       IN  /\ memory_cache' = m.mem
           /\ disk' = m.disk
           /\ svc' = [svc EXCEPT
                        !.prices = IF m.val # <<>> THEN @ \o m.val ELSE @,
                        !.gadded = @ + Len(m.val),
                        !.net = @ + m.net,
                        !.pc = "stats"]
    /\ UNCHANGED <<now, lastOp, lastSet, pc, loc>>

\* a variant of the return that writes the comparison to the cache even when no
\* offer was collected
FinishAlwaysCaches(sio) ==
    /\ svc.kind = "price" /\ svc.pc = "stats"
    /\ LET c == BuildComparison(svc.product, svc.prices, now)
           s == CacheSet(memory_cache, disk, svc.key[1], ComparisonToJson(c.val), None, now, sio)
       IN  IF c.exc
           THEN /\ svc' = [svc EXCEPT !.pc = "raised"]
                /\ UNCHANGED <<memory_cache, disk>>
           ELSE /\ memory_cache' = s.mem
                /\ disk' = s.disk
                /\ svc' = [svc EXCEPT !.pc = "done", !.served = TRUE, !.result = Some(c.val)]
    /\ UNCHANGED <<now, lastOp, lastSet, pc, loc>>

\* statistics, deal quality, caching and return, lines 203-236
Finish(sio) ==
    /\ svc.kind = "price" /\ svc.pc = "stats"
    /\ LET c == BuildComparison(svc.product, svc.prices, now)
           s == CacheSet(memory_cache, disk, svc.key[1], ComparisonToJson(c.val), None, now, sio)
       IN  IF c.exc
           THEN /\ svc' = [svc EXCEPT !.pc = "raised"]
                /\ UNCHANGED <<memory_cache, disk>>
           ELSE IF svc.prices # <<>>
           THEN /\ memory_cache' = s.mem
                /\ disk' = s.disk
                /\ svc' = [svc EXCEPT !.pc = "done", !.served = TRUE, !.result = Some(c.val)]
           ELSE /\ svc' = [svc EXCEPT !.pc = "done", !.result = Some(c.val)]
                /\ UNCHANGED <<memory_cache, disk>>
    /\ UNCHANGED <<now, lastOp, lastSet, pc, loc>>

\* fetch_product_images, the whole call
FetchImages(product, max_images, outs, gio, sio, rich) ==
    /\ Between
    /\ svc.n < CallBound(rich)
    /\ LET key == ImagesKey(product)
           f == fetch_product_images(memory_cache, disk, product, max_images, outs,
                                     now, gio, sio)
           probe == CacheGet(memory_cache, disk, key, now, "ok")
       IN  /\ memory_cache' = f.mem
           /\ disk' = f.disk
           /\ svc' = [n |-> svc.n + 1, kind |-> "images",
                      pc |-> IF f.exc THEN "raised" ELSE "done",
                      rapidapi_key |-> svc.rapidapi_key,
                      product |-> product, include_global |-> FALSE,
                      max_images |-> max_images, gather |-> NoGather, ranked |-> <<>>,
                      key |-> Some(key), idx |-> 0, prices |-> <<>>, log |-> <<>>,
                      gadded |-> 0, net |-> f.net,
                      served |-> f.hit \/ f.wrote,
                      populated |-> /\ Previous("images", key) # None
                                    /\ probe.ret = Some(ImagesToJson(Previous("images", key)[1])),
                      io_ok |-> CacheGet(memory_cache, disk, key, now, gio) = probe,
                      prev |-> Previous("images", key),
                      result |-> IF f.exc THEN None ELSE Some(f.val)]
    /\ UNCHANGED <<now, lastOp, lastSet, pc, loc>>

\* a request builds a new service object (routes/_service.py): a new CacheManager
\* with an empty memory tier over the same cache directory
NewService ==
    /\ Between
    /\ memory_cache # <<>>
    /\ memory_cache' = <<>>
    /\ UNCHANGED <<disk, now, lastOp, lastSet, pc, loc, svc>>

\* calls of get_price_comparison
PriceNext(rich) ==
    \/ \E p \in Products, g \in BOOLEAN, io \in SvcGetIO : StartPrice(p, g, io, rich)
    \/ FetchStep(rich)
    \/ \E apage \in AmazonPages(rich), gio \in SvcGetIO, sio \in SvcSetIO :
          AmazonStep(apage, gio, sio)
    \/ \E mpage \in MultiPages(rich), gio \in SvcGetIO, sio \in SvcSetIO :
          MultiStep(mpage, gio, sio)
    \/ \E sio \in SvcSetIO : Finish(sio)
    \/ NewService

\* calls of get_price_comparison and of fetch_product_images
ServiceNext(rich) ==
    \/ PriceNext(rich)
    \/ \E p \in Products, m \in 1..MaxImages, gio \in SvcGetIO, sio \in SvcSetIO :
          \E outs \in SourceOutcomes(rich)[1] \X SourceOutcomes(rich)[2] \X
                      SourceOutcomes(rich)[3] \X SourceOutcomes(rich)[4] :
                FetchImages(p, m, outs, gio, sio, rich)

\* price comparisons on a service with a RapidAPI key whose storefronts answer from
\* the larger menu
SpecPrice == PriceInit(TRUE) /\ [][PriceNext(TRUE)]_vars

\* repeated price and image calls on a service whose storefronts answer from the
\* smaller menu
SpecRepeat == PriceInit(FALSE) /\ [][ServiceNext(FALSE)]_vars

----------------------------------------------------------------------------
(* core/price_service.py: NigerianPriceService.get_recommended_retailer *)

\* Constants.NIGERIAN_RETAILERS.get(retailer_id, {}).get('trust_score', 3)
trust_score(rid) ==
    CASE rid = "jumia" -> 4
      [] rid = "konga" -> 4
      [] rid = "slot" -> 5
      [] rid = "spar" -> 4
      [] OTHER -> 3

\* an offer of a comparison, with the link to its product page
OfferWithUrl(rid, name, price) ==
    [retailer_id |-> rid, retailer_name |-> name, price_naira |-> price,
     last_checked |-> 0, product_url |-> <<"url", rid, price>>]

\* a variant that keeps the offers whose price is truthy, dropping a price of 0
RecValidTruthy(prices) == SelectSeq(prices, LAMBDA p : Truthy(p.price_naira))

\* valid_prices = [p for p in price_comparison.prices if p.price_naira is not None]
rec_valid_prices(prices) == SelectSeq(prices, LAMBDA p : p.price_naira # None)

\* price_range = max_price - min_price if max_price > min_price else 1
price_range(min_price, max_price) ==
    IF max_price > min_price THEN max_price - min_price ELSE 1

\* combined_score = (trust_score / 5.0) * 0.4 + normalized_price * 0.6 with
\* normalized_price = 1 - (price - min_price) / price_range, kept exact as the
\* integer 50 * price_range * combined_score
combined_score(o, min_price, range) ==
    4 * trust_score(o.retailer_id) * range
        + (IF range > 0 THEN 30 * (range - (o.price_naira[1] - min_price)) ELSE 30 * range)

\* a variant of the loop's test that lets a later offer win a tie
BetterOrEqual(score, best_score) == score >= best_score

\* if combined_score > best_score
Better(score, best_score) == score > best_score

\* the selection loop: best_score starts at -1, an offer replaces the best one when
\* its score is better; returns the best offer and the flags of its reason
RECURSIVE SelectBest(_, _, _, _, _)
SelectBest(valid, min_price, range, best, best_score) ==
    IF valid = <<>> THEN best
    ELSE LET o == Head(valid)
             score == combined_score(o, min_price, range)
         IN  IF Better(score, best_score)
             THEN SelectBest(Tail(valid), min_price, range, Some(o), score)
             ELSE SelectBest(Tail(valid), min_price, range, best, best_score)

\* best_reason: which of "cheapest" and "highly trusted" (trust_score >= 4) hold
recommendation_reason(o, min_price) ==
    LET is_cheapest == o.price_naira[1] = min_price
        is_highly_trusted == trust_score(o.retailer_id) >= 4
    IN  IF is_cheapest /\ is_highly_trusted THEN "cheapest_trusted"
        ELSE IF is_cheapest THEN "cheapest"
        ELSE IF is_highly_trusted THEN "trusted"
        ELSE "balanced"

\* get_recommended_retailer(price_comparison), given the comparison's offers
get_recommended_retailer(prices) ==
    LET valid == rec_valid_prices(prices)
        amounts == [i \in DOMAIN valid |-> valid[i].price_naira[1]]
        min_price == PyMin(amounts)
        range == price_range(min_price, PyMax(amounts))
        best == SelectBest(valid, min_price, range, None, (0 - 1) * 50 * range)
    IN  IF prices = <<>> THEN None
        ELSE IF valid = <<>> THEN None
        ELSE IF best = None THEN None
        ELSE Some([retailer_name |-> best[1].retailer_name,
                   retailer_id |-> best[1].retailer_id,
                   price_naira |-> best[1].price_naira,
                   product_url |-> best[1].product_url,
                   trust_score |-> trust_score(best[1].retailer_id),
                   recommendation_reason |-> recommendation_reason(best[1], min_price)])

\* the retailers and prices of the comparisons given to get_recommended_retailer:
\* trust 4, 4, 5 and an unlisted store (trust 3); no price, 0, 100, 120
RecRetailers == {"jumia", "konga", "slot", "store"}
RecPrices == {None, Some(0), Some(100), Some(120)}
RecOffers == {OfferWithUrl(r, r, p) : r \in RecRetailers, p \in RecPrices}

\* the offer lists of length 0..MaxOffers
OfferLists == UNION {[1..n -> RecOffers] : n \in 0..MaxOffers}

\* a comparison is at hand
RecInit ==
    /\ memory_cache = <<>>
    /\ disk = [ck \in ServiceHashedKeys |-> NoFile]
    /\ now = 0
    /\ lastOp = NoOp
    /\ lastSet = [k \in CacheKeys |-> None]
    /\ pc = IdleThreads
    /\ loc = NoLocals
    /\ \E offers \in OfferLists :
          svc = [NoCall EXCEPT !.kind = "recommend", !.pc = "call", !.prices = offers]

\* the call of get_recommended_retailer on the comparison
Recommend ==
    /\ svc.kind = "recommend" /\ svc.pc = "call"
    /\ svc' = [svc EXCEPT !.pc = "done", !.result = get_recommended_retailer(svc.prices)]
    /\ UNCHANGED <<memory_cache, disk, now, lastOp, lastSet, pc, loc>>

SpecRecommend == RecInit /\ [][Recommend]_vars

----------------------------------------------------------------------------
(* Properties of get_price_comparison *)

\* the call in progress or just completed is a price comparison that missed the cache
\* and went to the retailers
PriceMiss == svc.kind = "price" /\ svc.log # <<>>

\* the retailer loop is over
LoopDone == svc.pc \in {"global", "multi", "stats", "done", "raised"}

\* every retailer that has a scraper met an exception, and the global sources added
\* no offer
AllAdaptersFailed ==
    /\ \A i \in 1..Len(svc.log) :
          svc.log[i].rid \in AdapterIds => svc.log[i].page.kind = "error"
    /\ svc.gadded = 0

\* C6: when every retailer adapter raises during a cache-miss get_price_comparison,
\* the call raises nothing and returns a comparison with no offers and with
\* lowest_price, highest_price, average_price, best_deal_retailer and deal_quality
\* all null.
C6_AllAdaptersFailYieldsEmpty ==
    (PriceMiss /\ svc.pc \in {"done", "raised"} /\ AllAdaptersFailed) =>
        /\ svc.pc = "done"
        /\ svc.result # None
        /\ svc.result[1].prices = <<>>
        /\ svc.result[1].lowest_price = None
        /\ svc.result[1].highest_price = None
        /\ svc.result[1].average_price = None
        /\ svc.result[1].best_deal_retailer = None
        /\ svc.result[1].deal_quality = None

\* a completed miss with the global sources enabled in which every source failed
C6_Witness ==
    /\ PriceMiss /\ svc.pc = "done" /\ AllAdaptersFailed
    /\ svc.include_global /\ svc.rapidapi_key
    /\ Len(svc.log) = Len(NIGERIAN_RETAILERS)
    /\ svc.result[1].prices = <<>>

\* the storefront answer gives an offer: a product page, and for every scraper but
\* Jumia's a price that is neither missing nor zero
Yields(e) ==
    /\ e.rid \in AdapterIds
    /\ e.page.kind = "product"
    /\ (e.rid = "jumia" \/ Truthy(e.page.price))

\* C7: on a cache miss every configured retailer is invoked exactly once, in the
\* configured order, whatever the earlier ones did (raise, return nothing, return an
\* offer); and the offers collected from the retailers are, in order, exactly the
\* offers the invoked retailers gave.
C7_EveryAdapterInvokedInOrder ==
    svc.kind = "price" =>
        LET yielded == SelectSeq(svc.log, Yields)
            local == SelectSeq(svc.prices, LAMBDA o : o.retailer_id \in AdapterIds)
        IN  /\ Len(svc.log) <= Len(NIGERIAN_RETAILERS)
            /\ \A i \in 1..Len(svc.log) : svc.log[i].rid = NIGERIAN_RETAILERS[i]
            /\ (PriceMiss /\ LoopDone) => Len(svc.log) = Len(NIGERIAN_RETAILERS)
            /\ Len(local) = Len(yielded)
            /\ \A i \in 1..Len(local) :
                  /\ local[i].retailer_id = yielded[i].rid
                  /\ local[i].price_naira = yielded[i].page.price

\* a completed miss in which the first retailer gave an offer, the second raised and
\* the third gave an offer: all were invoked and both offers were kept
C7_Witness ==
    /\ PriceMiss /\ svc.pc = "done"
    /\ Len(svc.log) = Len(NIGERIAN_RETAILERS)
    /\ Yields(svc.log[1]) /\ svc.log[2].page.kind = "error" /\ Yields(svc.log[3])
    /\ Len(svc.result[1].prices) >= 2
    /\ svc.result[1].prices[1].retailer_id = "jumia"
    /\ svc.result[1].prices[2].retailer_id = "slot"

\* the sum of the prices of the offers at the positions in S
RECURSIVE SumAt(_, _)
SumAt(offers, S) ==
    IF S = {} THEN 0
    ELSE LET i == CHOOSE j \in S : TRUE
         IN  offers[i].price_naira[1] + SumAt(offers, S \ {i})

\* the positions of the offers that have a price
Priced(offers) == {i \in DOMAIN offers : offers[i].price_naira # None}

\* C9: in every comparison built on a cache miss, lowest_price, highest_price and
\* average_price are the minimum, the maximum and the arithmetic mean of exactly the
\* offers whose price is non-null, and all three are null when no offer has a price.
C9_StatsOverPricedOffers ==
    (PriceMiss /\ svc.pc = "done") =>
        LET c == svc.result[1]
            P == Priced(c.prices)
        IN  IF P = {}
            THEN c.lowest_price = None /\ c.highest_price = None /\ c.average_price = None
            ELSE /\ c.lowest_price # None /\ c.highest_price # None /\ c.average_price # None
                 /\ \E i \in P : c.prices[i].price_naira = c.lowest_price
                 /\ \A i \in P : c.lowest_price[1] <= c.prices[i].price_naira[1]
                 /\ \E i \in P : c.prices[i].price_naira = c.highest_price
                 /\ \A i \in P : c.highest_price[1] >= c.prices[i].price_naira[1]
                 /\ c.average_price[1].num = SumAt(c.prices, P)
                 /\ c.average_price[1].den = Cardinality(P)

\* offers priced 100, 120 and 200 give lowest 100, highest 200 and average 140
C9_Witness ==
    /\ PriceMiss /\ svc.pc = "done"
    /\ LET c == svc.result[1]
       IN  /\ Len(c.prices) = 3
           /\ c.prices[1].price_naira = Some(100)
           /\ c.prices[2].price_naira = Some(120)
           /\ c.prices[3].price_naira = Some(200)
           /\ c.lowest_price = Some(100)
           /\ c.highest_price = Some(200)
           /\ c.average_price[1].num = 140 * c.average_price[1].den

\* C10: in every comparison returned by get_price_comparison, best_deal_retailer
\* names an offer whose price equals lowest_price, and it is null whenever no offer
\* has a price.
C10_BestDealIsLowestPriced ==
    (svc.kind = "price" /\ svc.pc = "done") =>
        LET c == svc.result[1]
            P == Priced(c.prices)
        IN  IF P = {}
            THEN c.best_deal_retailer = None
            ELSE /\ c.best_deal_retailer # None
                 /\ \E i \in P : /\ c.prices[i].retailer_name = c.best_deal_retailer[1]
                                 /\ c.prices[i].price_naira = c.lowest_price

\* the lowest price among the offers at the positions in S (S non-empty)
LowestAt(offers, S) ==
    LET i == CHOOSE j \in S : \A k \in S : offers[j].price_naira[1] <= offers[k].price_naira[1]
    IN  offers[i].price_naira[1]

----------------------------------------------------------------------------
(* Properties of repeated calls *)

----------------------------------------------------------------------------
(* Properties of get_recommended_retailer *)

\* a call of get_recommended_retailer has returned
Recommended == svc.kind = "recommend" /\ svc.pc = "done"

\* the recommendation carries the retailer id, price and link of the offer
SameOffer(rec, o) ==
    /\ rec.retailer_id = o.retailer_id
    /\ rec.price_naira = o.price_naira
    /\ rec.product_url = o.product_url

\* 0.4 * (trust / 5) + 0.6 * normalized_price of the offer at position i, where
\* normalized_price = 1 - (price - min) / (max - min), or 1 when max = min; scaled
\* by 50 * (max - min), or by 50 when max = min, to stay within the integers
ScoreAt(offers, i) ==
    LET P == Priced(offers)
        lo == LowestAt(offers, P)
        hi == CHOOSE h \in {offers[j].price_naira[1] : j \in P} :
                 \A j \in P : offers[j].price_naira[1] <= h
        t == trust_score(offers[i].retailer_id)
    IN  IF hi = lo THEN 4 * t + 30
        ELSE 4 * t * (hi - lo) + 30 * (hi - offers[i].price_naira[1])

C13_NullIffNoPricedOffer ==
    Recommended =>
        /\ svc.result = None <=> Priced(svc.prices) = {}
        /\ svc.result # None =>
              /\ \E i \in Priced(svc.prices) : SameOffer(svc.result[1], svc.prices[i])
              /\ svc.result[1].trust_score \in 1..5

\* a comparison whose only priced offer costs 0: that offer is recommended
C13_Witness ==
    /\ Recommended
    /\ Len(svc.prices) = 2
    /\ svc.prices[1].price_naira = None
    /\ svc.prices[2].price_naira = Some(0)
    /\ svc.result # None
    /\ SameOffer(svc.result[1], svc.prices[2])

----------------------------------------------------------------------------
(* core/scraping.py: the relevance filter and the four source helpers *)

ImageProduct == "Apple iPhone 15"

\* re.split(r"[^a-z0-9]+", product_name.lower())
all_tokens(product) ==
    CASE product = "Apple iPhone 15" -> {"apple", "iphone", "15"}
      [] OTHER -> {"p"}

\* any(c.isdigit() for c in token)
HasDigit(token) == token \in {"14", "15"}

\* the terms of the filters' lists and of the product name that occur in a
\* lower-cased text as substrings; no term holds a space, so none spans the
\* space between url and caption
TermsIn(text) ==
    CASE text = "https://apple.com/iphone-15.jpg" -> {".jpg", "15", "apple", "iphone"}
      [] text = "https://apple.com/iphone-15-case.jpg" -> {".jpg", "15", "apple", "case", "iphone"}
      [] text = "https://apple.com/logo.jpg" -> {".jpg", "apple", "logo"}
      [] text = "https://jumia.com.ng/iphone-15.jpg" -> {".jpg", "15", "iphone"}
      [] text = "https://jumia.com.ng/iphone-14.jpg" -> {".jpg", "iphone"}
      [] text = "https://web.com/phone-15.jpg" -> {".jpg", "15"}
      [] text = "https://web.com/a15.jpg" -> {".jpg", "15"}
      [] text = "https://web.com/galaxy-15.jpg" -> {".jpg", "15"}
      [] text = "Apple iPhone 15" -> {"15", "apple", "iphone"}
      [] text = "iPhone 14" -> {"iphone"}
      [] text = "Apple 15" -> {"15", "apple"}
      [] text = "iPhone 15 wallpaper" -> {"15", "iphone", "wallpaper"}
      [] text = "Samsung 15" -> {"15", "samsung"}
      [] OTHER -> {}

\* the entries of the lists that occur in these texts
invalid == {"logo", "wallpaper"}
extensions == {".jpg"}
lifestyle_keywords == {"case", "wallpaper"}
known_brands == {"apple", "iphone", "samsung"}

\* _is_valid_image_url
is_valid_image_url(url) ==
    /\ url # ""
    /\ TermsIn(url) \cap invalid = {}
    /\ TermsIn(url) \cap extensions # {}

\* combined = (img_url + ' ' + (alt_text or '')).lower(), as the terms in it
Combined(url, alt) == TermsIn(url) \cup (IF alt = None THEN {} ELSE TermsIn(alt[1]))

\* _is_product_image
is_product_image(url, alt, product) ==
    LET combined == Combined(url, alt)
        numeric_tokens == {t \in all_tokens(product) : HasDigit(t)}
        brand_tokens == all_tokens(product) \cap known_brands
    IN  /\ url # ""
        /\ combined \cap lifestyle_keywords = {}
        /\ \A t \in numeric_tokens : t \in combined
        /\ brand_tokens # {} =>
              \/ brand_tokens \cap combined # {}
              \/ /\ {"iphone", "ipad", "macbook"} \cap all_tokens(product) # {}
                 /\ "apple" \in combined

\* _detect_brand: the brand's domain, when a brand name is in the product name
detect_brand(product) ==
    IF "apple" \in all_tokens(product) THEN Some("apple.com") ELSE None

\* an element of a result page: its url, its caption (alt, title or t) when it
\* has one, its thumbnail when it has one
RawImage(url, alt, thumb) == [url |-> url, alt |-> alt, thumb |-> thumb]

\* a result page: the request failed, or the elements in the order the
\* helper's loops visit them
FailedPage == [ok |-> FALSE, imgs |-> <<>>]
ImagePage(imgs) == [ok |-> TRUE, imgs |-> imgs]

\* img.get('alt', product_name)
Caption(raw, product) == IF raw.alt = None THEN Some(product) ELSE raw.alt

\* the elements a helper keeps: a url that is valid and passes the filter
RECURSIVE Accepted(_, _)
Accepted(raws, product) ==
    IF raws = <<>> THEN <<>>
    ELSE LET r == Head(raws)
         IN  IF /\ r.url # ""
                /\ is_valid_image_url(r.url)
                /\ is_product_image(r.url, Caption(r, product), product)
             THEN <<r>> \o Accepted(Tail(raws), product)
             ELSE Accepted(Tail(raws), product)

\* _fetch_brand_images: nothing without a detected brand or on a failed request
fetch_brand_images(product, page, max_images) ==
    IF detect_brand(product) = None \/ ~page.ok THEN <<>>
    ELSE LET acc == Accepted(page.imgs, product)
         IN  Take([i \in DOMAIN acc |->
                      ProductImage(acc[i].url, Some(acc[i].url), "Apple Official",
                                   Caption(acc[i], product))], max_images)

\* a variant of the retailer helper that keeps every element with a url
FetchRetailerUnfiltered(product, page, max_images) ==
    IF ~page.ok THEN <<>>
    ELSE Take([i \in DOMAIN page.imgs |->
                  ProductImage(page.imgs[i].url, Some(page.imgs[i].url), "Jumia Nigeria",
                               Caption(page.imgs[i], product))], max_images)

\* _fetch_retailer_images
fetch_retailer_images(product, page, max_images) ==
    IF ~page.ok THEN <<>>
    ELSE LET acc == Accepted(page.imgs, product)
         IN  Take([i \in DOMAIN acc |->
                      ProductImage(acc[i].url, Some(acc[i].url), "Jumia Nigeria",
                                   Caption(acc[i], product))], max_images)

\* _fetch_duckduckgo_images: the first max_images * 3 results, thumbnail as given
fetch_duckduckgo_images(product, page, max_images) ==
    IF ~page.ok THEN <<>>
    ELSE LET acc == Accepted(Take(page.imgs, max_images * 3), product)
         IN  Take([i \in DOMAIN acc |->
                      ProductImage(acc[i].url, acc[i].thumb, "DuckDuckGo",
                                   Caption(acc[i], product))], max_images)

\* _fetch_bing_images: img_data.get('turl', '') gives "" without a thumbnail
fetch_bing_images(product, page, max_images) ==
    IF ~page.ok THEN <<>>
    ELSE LET acc == Accepted(Take(page.imgs, max_images * 3), product)
         IN  Take([i \in DOMAIN acc |->
                      ProductImage(acc[i].url,
                                   IF acc[i].thumb = None THEN Some("") ELSE acc[i].thumb,
                                   "Bing", Caption(acc[i], product))], max_images)

\* the k-th source's helper as fetch_product_images calls it
SourceHelper(k, product, page, max_images) ==
    CASE k = 1 -> fetch_brand_images(product, page, 3)
      [] k = 2 -> fetch_retailer_images(product, page, 3)
      [] k = 3 -> fetch_duckduckgo_images(product, page, max_images * 3)
      [] OTHER -> fetch_bing_images(product, page, max_images * 3)

\* the result pages each source may answer with
ImagePages(k) ==
    CASE k = 1 ->
           {FailedPage,
            ImagePage(<<RawImage("https://apple.com/iphone-15.jpg", None, None),
                        RawImage("https://apple.com/iphone-15-case.jpg", Some("Apple iPhone 15"), None)>>),
            ImagePage(<<RawImage("https://apple.com/logo.jpg", Some("Apple iPhone 15"), None),
                        RawImage("https://apple.com/iphone-15.jpg", Some("Apple iPhone 15"), None),
                        RawImage("https://apple.com/iphone-15.jpg", None, None)>>)}
      [] k = 2 ->
           {FailedPage,
            ImagePage(<<RawImage("https://jumia.com.ng/iphone-14.jpg", Some("iPhone 14"), None),
                        RawImage("https://jumia.com.ng/iphone-15.jpg", Some(""), None)>>)}
      [] k = 3 ->
           {FailedPage,
            ImagePage(<<RawImage("https://web.com/a15.jpg", Some("iPhone 15 wallpaper"), None),
                        RawImage("https://web.com/phone-15.jpg", Some("Apple 15"), None)>>),
            ImagePage(<<RawImage("https://web.com/phone-15.jpg", Some("Apple 15"),
                                 Some("https://t.com/1.jpg")),
                        RawImage("", Some("Apple iPhone 15"), None)>>)}
      [] OTHER ->
           {ImagePage(<<>>),
            ImagePage(<<RawImage("https://web.com/galaxy-15.jpg", Some("Samsung 15"), None),
                        RawImage("https://web.com/phone-15.jpg", Some("Apple 15"), None)>>),
            ImagePage(<<RawImage("https://web.com/phone-15.jpg", Some("Apple 15"),
                                 Some("https://t.com/1.jpg"))>>)}

MaxImageCalls == 2

\* a new fetcher over an empty cache directory
ImagesInit ==
    /\ memory_cache = <<>>
    /\ disk = [ck \in {get_cache_key(ImagesKey(ImageProduct))} |-> NoFile]
    /\ now = 0
    /\ lastOp = NoOp
    /\ lastSet = [k \in CacheKeys |-> None]
    /\ pc = IdleThreads
    /\ loc = NoLocals
    /\ svc = NoCall

\* fetch_product_images up to the try block: the cache lookup and the hit
StartImages(product, max_images, gio) ==
    /\ Between
    /\ svc.n < MaxImageCalls
    /\ LET key == ImagesKey(product)
           g == CacheGet(memory_cache, disk, key, now, gio)
           call == [NoCall EXCEPT !.n = svc.n + 1, !.kind = "images", !.product = product,
                                  !.max_images = max_images, !.key = Some(key)]
       IN  /\ memory_cache' = g.mem
           /\ disk' = g.disk
           /\ svc' = IF g.raised THEN [call EXCEPT !.pc = "raised"]
                     ELSE IF g.ret # None /\ g.ret[1] # <<>>
                     THEN [call EXCEPT !.pc = "done", !.served = TRUE,
                                       !.result = Some(ImagesFromJson(g.ret[1]))]
                     ELSE [call EXCEPT !.pc = "source", !.idx = 1]
    /\ UNCHANGED <<now, lastOp, lastSet, pc, loc>>

\* the next source of the try block; a helper that raises ends the block
QuerySource(page, raises) ==
    /\ svc.pc = "source"
    /\ LET out == IF raises THEN Exc
                  ELSE Ok(SourceHelper(svc.idx, svc.product, page, svc.max_images))
       IN  svc' = [svc EXCEPT !.gather = GatherOne(@, svc.idx, out, svc.max_images),
                              !.idx = @ + 1,
                              !.pc = IF svc.idx = 4 THEN "rank" ELSE "source"]
    /\ UNCHANGED <<memory_cache, disk, now, lastOp, lastSet, pc, loc>>

\* after the try block: _dedup, _rank_images, the cache write and the slice
FinishImages(sio) ==
    /\ svc.pc = "rank"
    /\ LET images == rank_images(Dedup(svc.gather.images))
           s == CacheSet(memory_cache, disk, ImagesKey(svc.product),
                         ImagesToJson(Take(images, svc.max_images)), None, now, sio)
       IN  IF images # <<>>
           THEN /\ memory_cache' = s.mem
                /\ disk' = s.disk
                /\ svc' = [svc EXCEPT !.pc = "done", !.served = TRUE, !.ranked = images,
                                      !.net = svc.gather.net,
                                      !.result = Some(Take(images, svc.max_images))]
           ELSE /\ svc' = [svc EXCEPT !.pc = "done", !.net = svc.gather.net,
                                      !.result = Some(<<>>)]
                /\ UNCHANGED <<memory_cache, disk>>
    /\ UNCHANGED <<now, lastOp, lastSet, pc, loc>>

ImagesNext ==
    \/ \E m \in 1..MaxImages, gio \in SvcGetIO : StartImages(ImageProduct, m, gio)
    \/ svc.pc = "source" /\ \E page \in ImagePages(svc.idx), raises \in BOOLEAN :
          QuerySource(page, raises)
    \/ \E sio \in SvcSetIO : FinishImages(sio)

SpecImages == ImagesInit /\ [][ImagesNext]_vars

----------------------------------------------------------------------------
(* core/analyzers.py: the nine analyzer entry points *)

\* the fields a report model requires (core/models.py: fields without a default)
Required(model) ==
    CASE model = "RedFlagReport" -> {"product_name"}
      [] model = "PurchaseTimingAdvice" ->
           {"product_name", "lifecycle_stage", "recommendation", "reasoning"}
      [] model = "ResaleAnalysis" -> {"product_name"}
      [] model = "VideoProof" -> {}
      [] model = "FakeSpotterReport" -> {"risk_level"}
      [] model = "VoxPopuliReport" -> {"owner_verdict"}
      [] model = "SmartSwapReport" -> {"base_price", "recommendation"}
      [] model = "NetPriceReport" -> {}
      [] OTHER -> {"disaster_score"}

\* Model(**fields): a ValidationError when a required field is missing or a value
\* has the wrong shape; keyword arguments the model does not declare are ignored
Construct(model, given, well_shaped, origin) ==
    IF Required(model) \subseteq given /\ well_shaped
    THEN Ok([model |-> model, origin |-> origin])
    ELSE Exc

\* what the chat completion call does: it raises, its content is not JSON, its
\* JSON has fields of the wrong shape, or it is as the prompt asked
LLMReplies == {"raises", "invalid_json", "wrong_shape", "valid"}

\* try: call, json.loads, build the report from the reply
\* except Exception: build the default report (outside any handler)
LlmAnalyzer(model, parsed, default, reply) ==
    LET attempt == IF reply \in {"raises", "invalid_json"} THEN Exc
                   ELSE Construct(model, parsed, reply = "valid", "parsed")
    IN  IF attempt.exc THEN Construct(model, default, TRUE, "default") ELSE attempt

\* RedFlagDetector.analyze_red_flags: keyword counts over the review text; the
\* risk score in tenths
risk_score(defect_count, reliability_count, severe_cons) ==
    (IF defect_count >= 3 THEN 30 ELSE IF defect_count >= 1 THEN 15 ELSE 0)
    + (IF reliability_count >= 2 THEN 20 ELSE 0)
    + (IF severe_cons THEN 15 ELSE 0)

overall_risk(score) ==
    IF score >= 50 THEN "high" ELSE IF score >= 20 THEN "medium" ELSE "low"

\* the severities of the RedFlag objects appended, in order: high for three or more
\* defect keywords, medium for one or two, medium for two or more reliability
\* keywords, medium for a severe con (the low flag for incentivized reviews adds
\* nothing to the score and is left out)
red_flags(defect_count, reliability_count, severe_cons) ==
    (IF defect_count >= 3 THEN <<"high">>
     ELSE IF defect_count >= 1 THEN <<"medium">> ELSE <<>>)
    \o (IF reliability_count >= 2 THEN <<"medium">> ELSE <<>>)
    \o (IF severe_cons THEN <<"medium">> ELSE <<>>)

analyze_red_flags(defect_count, reliability_count, severe_cons) ==
    LET score == risk_score(defect_count, reliability_count, severe_cons)
        r == Construct("RedFlagReport",
                       {"product_name", "red_flags", "overall_risk_level", "risk_score",
                        "fake_review_score", "common_complaints", "recommendation"},
                       (IF score < 100 THEN score ELSE 100) \in 0..100, "computed")
    IN  IF r.exc THEN r
        ELSE Ok([model |-> r.val.model, origin |-> overall_risk(score),
                 red_flags |-> red_flags(defect_count, reliability_count, severe_cons),
                 overall_risk_level |-> overall_risk(score)])

\* PurchaseTimingAdvisor.get_timing_advice: computed from the name and the month
get_timing_advice ==
    Construct("PurchaseTimingAdvice",
              {"product_name", "lifecycle_stage", "recommendation", "reasoning",
               "new_model_expected", "expected_release_window", "best_sale_periods",
               "current_deal_quality", "price_trend", "confidence"}, TRUE, "computed")

ResaleFields ==
    {"predicted_value_1yr", "predicted_value_3yr", "depreciation_rate",
     "investment_score", "verdict"}

\* ResaleAnalyzer.analyze_resale_value: both constructions pass the same five
\* keywords, none of which is product_name
analyze_resale_value(reply) ==
    LlmAnalyzer("ResaleAnalysis", ResaleFields, ResaleFields, reply)

\* VideoProofFinder.find_video_proofs
find_video_proofs(reply) == LlmAnalyzer("VideoProof", {"moments"}, {"moments"}, reply)

\* FakeSpotter.analyze_authenticity
analyze_authenticity(reply) ==
    LlmAnalyzer("FakeSpotterReport", {"risk_level", "common_scams", "verification_steps"},
                {"risk_level", "common_scams", "verification_steps"}, reply)

\* VoxPopuliAnalyzer.analyze_owner_sentiment
analyze_owner_sentiment(reply) ==
    LlmAnalyzer("VoxPopuliReport",
                {"owner_verdict", "love_it_for", "hate_it_for", "forum_consensus"},
                {"owner_verdict", "love_it_for", "hate_it_for", "forum_consensus"}, reply)

\* SmartSwapAnalyzer.analyze_swap_options: no call without a price
analyze_swap_options(price, reply) ==
    IF ~Truthy(price)
    THEN Construct("SmartSwapReport", {"base_price", "recommendation", "swaps"}, TRUE, "default")
    ELSE LlmAnalyzer("SmartSwapReport", {"base_price", "recommendation", "swaps"},
                     {"base_price", "recommendation", "swaps"}, reply)

\* the products a net price is asked for: the name only enters the prompt
TradeProducts == {"iphone 15", "ps5 console", "binatone blender", "office chair"}

\* the "estimated_value" of one object of the reply's "upgrade_from" array: the
\* key is missing, its value is not a number, or it is the number v
EstimatedValue(json, v) == [json |-> json, v |-> v]
EstimatedValues ==
    {EstimatedValue("missing", 0), EstimatedValue("text", 0),
     EstimatedValue("number", 50), EstimatedValue("number", 150)}

MaxTradeOptions == 2
TradeOptionLists == UNION {[1..n -> EstimatedValues] : n \in 0..MaxTradeOptions}

\* what the chat completion does, with the "upgrade_from" array of a reply that
\* is as the prompt asked
TradeReplies ==
    {<<reply, <<>>>> : reply \in LLMReplies \ {"valid"}}
        \cup {<<"valid", options>> : options \in TradeOptionLists}

\* float(o.get("estimated_value", 0)), 0 when that raises
est_val(o) == IF o.json = "number" THEN o.v ELSE 0

\* max(0, current_price - est_val)
TradeInOption(o, current_price) ==
    [estimated_value |-> est_val(o),
     net_price |-> IF current_price - est_val(o) > 0 THEN current_price - est_val(o) ELSE 0]

\* NetPriceAnalyzer.calculate_net_price: no call without a price; the category is
\* left to the prompt, and every object of the reply becomes an option
calculate_net_price(product_name, current_price, reply, options) ==
    LET r == IF ~Truthy(current_price)
             THEN Construct("NetPriceReport", {"upgrade_from"}, TRUE, "default")
             ELSE LlmAnalyzer("NetPriceReport", {"upgrade_from"}, {"upgrade_from"}, reply)
    IN  IF r.exc THEN r
        ELSE Ok([model |-> r.val.model, origin |-> r.val.origin,
                 upgrade_from |->
                     IF r.val.origin = "parsed"
                     THEN [i \in 1..Len(options) |->
                               TradeInOption(options[i], current_price[1])]
                     ELSE <<>>])

\* DisasterAnalyzer.simulate_disasters
simulate_disasters(reply) ==
    LlmAnalyzer("WhatIfReport", {"disaster_score", "scenarios"},
                {"disaster_score", "scenarios"}, reply)

MaxAnalyzerCalls == 2
AnalyzerPrices == {None, Some(0), Some(100)}

\* no entry point has been called
AnalyzersInit ==
    /\ memory_cache = <<>>
    /\ disk = [ck \in ServiceHashedKeys |-> NoFile]
    /\ now = 0
    /\ lastOp = NoOp
    /\ lastSet = [k \in CacheKeys |-> None]
    /\ pc = IdleThreads
    /\ loc = NoLocals
    /\ svc = [kind |-> "analyze", pc |-> "idle", n |-> 0, entry |-> "none",
              reply |-> "none", price |-> None, inputs |-> <<>>, result |-> None]

\* a call of an entry point has returned r or raised
Called(entry, reply, price, inputs, r) ==
    /\ svc.n < MaxAnalyzerCalls
    /\ svc' = [kind |-> "analyze", pc |-> IF r.exc THEN "raised" ELSE "done",
               n |-> svc.n + 1, entry |-> entry, reply |-> reply, price |-> price,
               inputs |-> inputs, result |-> r.val]
    /\ UNCHANGED <<memory_cache, disk, now, lastOp, lastSet, pc, loc>>

RedFlags(d, r, s) ==
    Called("analyze_red_flags", "none", None, <<d, r, s>>, analyze_red_flags(d, r, s))
Timing == Called("get_timing_advice", "none", None, <<>>, get_timing_advice)
Resale(price, reply) ==
    Called("analyze_resale_value", reply, price, <<>>, analyze_resale_value(reply))
Video(reply) == Called("find_video_proofs", reply, None, <<>>, find_video_proofs(reply))
Fake(reply) == Called("analyze_authenticity", reply, None, <<>>, analyze_authenticity(reply))
Vox(reply) ==
    Called("analyze_owner_sentiment", reply, None, <<>>, analyze_owner_sentiment(reply))
Swap(price, reply) ==
    Called("analyze_swap_options", reply, price, <<>>, analyze_swap_options(price, reply))
NetPrice(product_name, price, reply, options) ==
    Called("calculate_net_price", reply, price, <<product_name, options>>,
           calculate_net_price(product_name, price, reply, options))
Disaster(reply) ==
    Called("simulate_disasters", reply, None, <<>>, simulate_disasters(reply))

AnalyzersNext ==
    \/ \E d \in {0, 1, 3}, r \in {0, 2}, s \in BOOLEAN : RedFlags(d, r, s)
    \/ Timing
    \/ \E price \in AnalyzerPrices, reply \in LLMReplies : Resale(price, reply)
    \/ \E reply \in LLMReplies : Video(reply)
    \/ \E reply \in LLMReplies : Fake(reply)
    \/ \E reply \in LLMReplies : Vox(reply)
    \/ \E price \in AnalyzerPrices, reply \in LLMReplies : Swap(price, reply)
    \/ \E product_name \in TradeProducts, price \in AnalyzerPrices, llm \in TradeReplies :
           NetPrice(product_name, price, llm[1], llm[2])
    \/ \E reply \in LLMReplies : Disaster(reply)

SpecAnalyzers == AnalyzersInit /\ [][AnalyzersNext]_vars

----------------------------------------------------------------------------
(* routes/review.py and the orchestrator: one POST /api/review request *)

\* a product name as runs of one character: [ch |-> c, n |-> k] is c repeated k
\* times; " " stands for whitespace, "<" for the characters < > " ' \ /
Seg(ch, n) == [ch |-> ch, n |-> n]
SegChars == {" ", "a", "<"}
SegCounts == {1, 200}
MaxSegments == 2
NameInputs == UNION {[1..k -> {Seg(c, n) : c \in SegChars, n \in SegCounts}] : k \in 0..MaxSegments}

\* str.strip()
RECURSIVE StripLeft(_)
StripLeft(name) ==
    IF name # <<>> /\ Head(name).ch = " " THEN StripLeft(Tail(name)) ELSE name

RECURSIVE StripRight(_)
StripRight(name) ==
    IF name # <<>> /\ name[Len(name)].ch = " "
    THEN StripRight(SubSeq(name, 1, Len(name) - 1)) ELSE name

strip(name) == StripRight(StripLeft(name))

\* len(name)
RECURSIVE NameLen(_)
NameLen(name) == IF name = <<>> THEN 0 ELSE Head(name).n + NameLen(Tail(name))

MaxNameLength == 200

\* re.sub(r'[<>"\'\\\/]', '', name)
RECURSIVE sanitize(_)
sanitize(name) ==
    IF name = <<>> THEN <<>>
    ELSE IF Head(name).ch = "<" THEN sanitize(Tail(name))
    ELSE <<Head(name)>> \o sanitize(Tail(name))

\* ReviewRequest.validated_product_name: a ValueError, or the sanitized name
validated_product_name(raw) ==
    LET name == strip(raw)
    IN  IF name = <<>> \/ NameLen(name) > MaxNameLength THEN Exc ELSE Ok(sanitize(name))

\* what fetch_product_images(product_name, max_images=5) does on a new service
\* over an empty cache directory: it raises or returns a list
ReviewImageOutcomes ==
    LET S == SourceOutcomes(FALSE)
    IN  {[exc |-> f.exc, val |-> f.val] :
            f \in {fetch_product_images(<<>>, [ck \in ServiceHashedKeys |-> NoFile], "p", 5,
                                        outs, 0, gio, "ok") :
                      outs \in S[1] \X S[2] \X S[3] \X S[4], gio \in SvcGetIO}}

\* a request arrives: product_name and data_mode as sent
ReviewInit ==
    /\ memory_cache = <<>>
    /\ disk = [ck \in ServiceHashedKeys |-> NoFile]
    /\ now = 0
    /\ lastOp = NoOp
    /\ lastSet = [k \in CacheKeys |-> None]
    /\ pc = IdleThreads
    /\ loc = NoLocals
    /\ \E raw \in NameInputs, mode \in {"web", "ai"} :
          svc = [kind |-> "review", pc |-> "request", raw |-> raw, mode |-> mode,
                 name |-> <<>>, started |-> FALSE, calls |-> <<>>, base_ok |-> FALSE,
                 images |-> None, response |-> "none"]

\* routes/review.py generate_review, lines 72-75 and 87-89: the name is checked,
\* then the service is called with the sanitized name
Validate ==
    /\ svc.kind = "review" /\ svc.pc = "request"
    /\ LET v == validated_product_name(svc.raw)
       IN  svc' = IF v.exc
                  THEN [svc EXCEPT !.pc = "rejected", !.response = "http_400"]
                  ELSE [svc EXCEPT !.pc = "base", !.name = v.val, !.started = TRUE]
    /\ UNCHANGED <<memory_cache, disk, now, lastOp, lastSet, pc, loc>>

\* the base review.  web: search_products (SearchError, or no results), then
\* scrape_content, then generate_web_review (AIGenerationError); ai: the
\* placeholder review, no call.  generate_review turns every exception into a
\* ProductReviewError and the route answers {"error": ...}
BaseReview(outcome) ==
    /\ svc.kind = "review" /\ svc.pc = "base"
    /\ svc' =
         IF svc.mode = "ai"
         THEN [svc EXCEPT !.pc = "images", !.base_ok = TRUE]
         ELSE IF outcome \in {"search_error", "no_results"}
         THEN [svc EXCEPT !.pc = "error", !.response = "error", !.calls = @ \o <<"search">>]
         ELSE IF outcome = "generation_error"
         THEN [svc EXCEPT !.pc = "error", !.response = "error",
                          !.calls = @ \o <<"search", "scrape", "llm">>]
         ELSE [svc EXCEPT !.pc = "images", !.base_ok = TRUE,
                          !.calls = @ \o <<"search", "scrape", "llm">>]
    /\ UNCHANGED <<memory_cache, disk, now, lastOp, lastSet, pc, loc>>

\* generate_enhanced_review line 571 (product_service.py:264 in ai mode): the
\* image fetch is not inside a try block
ReviewImages(out) ==
    /\ svc.kind = "review" /\ svc.pc = "images"
    /\ svc' = IF out.exc
              THEN [svc EXCEPT !.pc = "error", !.response = "error", !.calls = @ \o <<"images">>]
              ELSE [svc EXCEPT !.pc = "sentiment", !.images = Some(out.val),
                               !.calls = @ \o <<"images">>]
    /\ UNCHANGED <<memory_cache, disk, now, lastOp, lastSet, pc, loc>>

\* lines 575-577: summarize_aspect_sentiment(base_review, product_name) passes
\* two arguments to a method that takes one (sentiment.py:112): a TypeError,
\* outside any try block; lines 579-784 are not reached
Sentiment ==
    /\ svc.kind = "review" /\ svc.pc = "sentiment"
    /\ svc' = [svc EXCEPT !.pc = "error", !.response = "error"]
    /\ UNCHANGED <<memory_cache, disk, now, lastOp, lastSet, pc, loc>>

ReviewNext ==
    \/ Validate
    \/ \E outcome \in {"search_error", "no_results", "generation_error", "ok"} :
          BaseReview(outcome)
    \/ \E out \in ReviewImageOutcomes : ReviewImages(out)
    \/ Sentiment

SpecReview == ReviewInit /\ [][ReviewNext]_vars

----------------------------------------------------------------------------
(* Properties of fetch_product_images *)

\* a call of fetch_product_images has returned
ImagesDone == svc.kind = "images" /\ svc.pc = "done"

\* C14: fetch_product_images(product_name, max_images) never returns more than
\* max_images images, whether they are computed from the sources or served from the
\* cache, whatever max_images the earlier calls used.
C14_AtMostMaxImages ==
    ImagesDone => Len(svc.result[1]) <= svc.max_images

\* the sources queried by the call, in the order of the queries
Queried == [i \in DOMAIN svc.gather.log |-> svc.gather.log[i].source]

\* C15: on a cache miss the sources are queried only in the order brand site (1),
\* retailers (2), DuckDuckGo (3), Bing (4), starting with the brand site; a source
\* after the first is queried only when fewer than max_images images were
\* collected before it, so no source is queried once max_images is reached.
C15_SourcesInOrderWhileShort ==
    svc.kind = "images" =>
        LET log == svc.gather.log
        IN  /\ \A i \in DOMAIN log : log[i].source \in 1..4
            /\ log # <<>> => log[1].source = 1
            /\ \A i, j \in DOMAIN log : i < j => log[i].source < log[j].source
            /\ \A i \in DOMAIN log : log[i].source > 1 => log[i].before < svc.max_images
            /\ \A i \in DOMAIN log :
                  i > 1 => log[i].before >= log[i - 1].before

\* a miss with max_images = 2 where the brand site and the retailers gave one
\* image each and neither search engine was queried
C15_Witness ==
    /\ ImagesDone
    /\ svc.max_images = 2
    /\ Queried = <<1, 2>>
    /\ Len(svc.gather.images) = 2
    /\ svc.gather.open

\* the terms in the url and the caption of a collected image
TextOf(im) == TermsIn(im.url) \cup (IF im.alt_text = None THEN {} ELSE TermsIn(im.alt_text[1]))

\* C16: every image collected on a cache miss has passed the relevance filter: no
\* blocklisted term in its url and caption, every token of the product name that
\* holds a digit in its url and caption, and a brand of the product name, or
\* the alias of that brand, in its url and caption; no source adds an unfiltered image.
C16_CollectedPassedFilter ==
    svc.kind = "images" =>
        \A i \in DOMAIN svc.gather.images :
            LET text == TextOf(svc.gather.images[i])
            IN  /\ svc.gather.images[i].url # ""
                /\ text \cap {"case", "wallpaper"} = {}
                /\ \A t \in all_tokens(svc.product) : HasDigit(t) => t \in text
                /\ text \cap {"apple", "iphone"} # {}

\* a miss where the retailers gave an image recognised by its url alone and
\* DuckDuckGo one recognised by the alias in its caption
C16_Witness ==
    /\ ImagesDone
    /\ svc.gather.log # <<>>
    /\ \E i, j \in DOMAIN svc.gather.images :
          /\ svc.gather.images[i].source = "Jumia Nigeria"
          /\ svc.gather.images[i].alt_text = Some("")
          /\ svc.gather.images[j].source = "DuckDuckGo"
          /\ svc.gather.images[j].alt_text = Some("Apple 15")

\* a call that missed the cache and has returned
MissDone == ImagesDone /\ svc.gather.log # <<>>

\* the (url, thumbnail_url) pair of an image as its fields hold it, and the key
\* _dedup compares, where a missing thumbnail counts as the empty string
PairOf(im) == <<im.url, im.thumbnail_url>>
KeyOf(im) == <<im.url, IF im.thumbnail_url = None THEN "" ELSE im.thumbnail_url[1]>>

\* C17 (as amended): the list returned on a cache miss holds no two images with
\* the same (url, thumbnail_url), a missing thumbnail counting as an empty one;
\* before the truncation to max_images the list holds, for every such pair with
\* a non-empty url, exactly the first collected image that has it.
C17_FirstOfEachKeyKept ==
    MissDone =>
        LET col == svc.gather.images
            out == svc.ranked
            ret == svc.result[1]
        IN  /\ \A i, j \in DOMAIN ret : i # j => KeyOf(ret[i]) # KeyOf(ret[j])
            /\ \A i, j \in DOMAIN out : i # j => KeyOf(out[i]) # KeyOf(out[j])
            /\ ret = SubSeq(out, 1, Len(ret))
            /\ \A i \in DOMAIN col :
                  (col[i].url # "" /\ \A j \in 1..(i - 1) : KeyOf(col[j]) # KeyOf(col[i]))
                      => \E k \in DOMAIN out : out[k] = col[i]
            /\ \A k \in DOMAIN out : \E i \in DOMAIN col : col[i] = out[k]

\* C17 (as stated): the same with the pair of the two fields as they are, a
\* missing thumbnail and an empty one being different pairs.
C17_FirstOfEachPairKept ==
    MissDone =>
        LET col == svc.gather.images
            out == svc.ranked
            ret == svc.result[1]
        IN  /\ \A i, j \in DOMAIN ret : i # j => PairOf(ret[i]) # PairOf(ret[j])
            /\ \A i \in DOMAIN col :
                  (col[i].url # "" /\ \A j \in 1..(i - 1) : PairOf(col[j]) # PairOf(col[i]))
                      => \E k \in DOMAIN out : out[k] = col[i]

\* a miss where DuckDuckGo and Bing gave the same url with the same thumbnail:
\* the DuckDuckGo image, collected first, is the one kept
C17_Witness ==
    /\ MissDone
    /\ \E i, j \in DOMAIN svc.gather.images :
          /\ i < j
          /\ svc.gather.images[i].source = "DuckDuckGo"
          /\ svc.gather.images[j].source = "Bing"
          /\ PairOf(svc.gather.images[i]) = PairOf(svc.gather.images[j])
          /\ \E k \in DOMAIN svc.result[1] : svc.result[1][k] = svc.gather.images[i]
          /\ \A k \in DOMAIN svc.ranked : svc.ranked[k] # svc.gather.images[j]

----------------------------------------------------------------------------
(* Properties of the analyzers *)

\* C18: every analyzer entry point returns a report for every input and every
\* outcome of its internal steps; when the chat completion raises, replies with
\* invalid JSON or with fields of the wrong shape, the report is the neutral
\* default, and the entry point does not raise.
C18_EntryPointsAlwaysReturn ==
    (svc.kind = "analyze" /\ svc.pc # "idle") =>
        /\ svc.pc = "done"
        /\ svc.result # None
        /\ svc.reply \in {"raises", "invalid_json", "wrong_shape"}
              => svc.result.origin = "default"

----------------------------------------------------------------------------
(* Properties of a review request *)

\* C19: a review request surfaces an error only when the base review generation
\* fails; once the base review is generated, a failure of the image fetch, the
\* price comparison, the retailer recommendation or an analyzer leaves its field
\* null or empty and the request still returns a composite report.
C19_ErrorOnlyWhenBaseReviewFails ==
    (svc.kind = "review" /\ svc.response = "error") => ~svc.base_ok

\* C20: a request whose product name is empty or longer than 200 characters is
\* rejected with a validation error before any search, scrape, price, image or
\* LLM call; the pipeline is never started with an empty product name.
C20_InvalidNameNeverStartsPipeline ==
    svc.kind = "review" =>
        /\ (strip(svc.raw) = <<>> \/ NameLen(strip(svc.raw)) > MaxNameLength)
              => (svc.calls = <<>> /\ ~svc.started /\ svc.pc \in {"request", "rejected"})
        /\ svc.started => svc.name # <<>>

----------------------------------------------------------------------------
(* core/currency.py: CurrencyFormatter._get_usd_rates and convert_to_naira *)

\* currency codes the rate service quotes, per US dollar; a rate of 0 is falsy
RateCodes == {"NGN", "USD", "EUR"}
RateValues(c) == CASE c = "NGN" -> {1500} [] c = "USD" -> {1} [] OTHER -> {0, 2}

\* the 'rates' object of a reply: any subset of the codes may be missing
RateTables ==
    {r \in UNION {[S -> {0, 1, 2, 1500}] : S \in SUBSET RateCodes} :
        \A c \in DOMAIN r : r[c] \in RateValues(c)}

\* what requests.get(...) does: it raises, answers with an error status, answers
\* with a body that is not JSON, or answers with a table of rates
FetchOutcomes ==
    {[kind |-> k, rates |-> <<>>] : k \in {"raises", "http_error", "bad_json"}}
        \cup {[kind |-> "ok", rates |-> r] : r \in RateTables}

\* the currency_code arguments and str.upper() on them
CodeInputs == {None, Some(""), Some("ngn"), Some("NGN"), Some("₦"), Some("usd"),
               Some("USD"), Some("eur"), Some("GBP")}
Upper(code) ==
    CASE code = "ngn" -> "NGN" [] code = "usd" -> "USD" [] code = "eur" -> "EUR"
      [] OTHER -> code

\* the amounts: None, zero, a positive amount
AmountInputs == {None, Some(0), Some(100)}

\* rates['NGN'] = value
WithRate(rates, c, value) ==
    [x \in DOMAIN rates \cup {c} |-> IF x = c THEN value ELSE rates[x]]

\* the fallback table {'NGN': Constants.USD_TO_NGN_FALLBACK}
FallbackRates == [x \in {"NGN"} |-> USD_TO_NGN_FALLBACK]

\* a CurrencyFormatter after __init__
NewFormatter == [rates |-> <<>>, stamp |-> None]

\* the one-hour window of line 59: the cached table is returned unchanged
RatesFresh(self, t) ==
    /\ DOMAIN self.rates # {}
    /\ self.stamp # None
    /\ t - self.stamp[1] < 1

\* _get_usd_rates with the try block removed: a failure of the fetch propagates
GetUsdRatesUnguarded(self, fetch, t) ==
    IF RatesFresh(self, t)
    THEN [exc |-> FALSE, rates |-> self.rates, stamp |-> self.stamp, fetched |-> FALSE]
    ELSE IF fetch.kind \in {"raises", "bad_json"}
    THEN [exc |-> TRUE, rates |-> self.rates, stamp |-> self.stamp, fetched |-> TRUE]
    ELSE IF fetch.kind = "ok"
    THEN [exc |-> FALSE,
          rates |-> IF "NGN" \in DOMAIN fetch.rates THEN fetch.rates
                    ELSE WithRate(fetch.rates, "NGN", USD_TO_NGN_FALLBACK),
          stamp |-> Some(t), fetched |-> TRUE]
    ELSE [exc |-> FALSE, rates |-> FallbackRates, stamp |-> Some(t), fetched |-> TRUE]

\* CurrencyFormatter._get_usd_rates: the table it returns and leaves in self
get_usd_rates(self, fetch, t) ==
    IF RatesFresh(self, t)
    THEN [exc |-> FALSE, rates |-> self.rates, stamp |-> self.stamp, fetched |-> FALSE]
    ELSE IF fetch.kind = "ok"
    THEN [exc |-> FALSE,
          rates |-> IF "NGN" \in DOMAIN fetch.rates THEN fetch.rates
                    ELSE WithRate(fetch.rates, "NGN", USD_TO_NGN_FALLBACK),
          stamp |-> Some(t), fetched |-> TRUE]
    ELSE [exc |-> FALSE, rates |-> FallbackRates, stamp |-> Some(t), fetched |-> TRUE]

\* an amount of naira as an exact quotient num/den (the code computes it in floats)
Quotient(num, den) == [num |-> num, den |-> den]

\* rates.get(key, default)
RateOr(rates, c, default) == IF c \in DOMAIN rates THEN Some(rates[c]) ELSE default

\* lines 112-119: the cross rate, amount * fallback when the division raises
CrossRate(rates, amount, code) ==
    LET ngn_per_usd == RateOr(rates, "NGN", Some(USD_TO_NGN_FALLBACK))[1]
        code_per_usd == RateOr(rates, code, None)
    IN  IF code_per_usd = None \/ code_per_usd[1] = 0
        THEN Quotient(amount * ngn_per_usd, 1)
        ELSE Quotient(amount * ngn_per_usd, code_per_usd[1])

\* CurrencyFormatter.convert_to_naira on a formatter in any state: the value it
\* returns (or the exception) and the formatter afterwards
ConvertToNaira(self, amount, currency_code, fetch, t) ==
    LET code == Upper(IF currency_code = None \/ currency_code[1] = ""
                      THEN "NGN" ELSE currency_code[1])
        got == get_usd_rates(self, fetch, t)
        after == [rates |-> got.rates, stamp |-> got.stamp]
    IN  IF amount = None
        THEN [exc |-> FALSE, val |-> None, self |-> self, fetched |-> FALSE]
        ELSE IF code \in {"NGN", "₦"}
        THEN [exc |-> FALSE, val |-> Some(Quotient(amount[1], 1)), self |-> self,
              fetched |-> FALSE]
        ELSE IF got.exc
        THEN [exc |-> TRUE, val |-> None, self |-> after, fetched |-> got.fetched]
        ELSE IF code \notin DOMAIN got.rates /\ "NGN" \in DOMAIN got.rates
        THEN [exc |-> FALSE, val |-> Some(Quotient(amount[1] * got.rates["NGN"], 1)),
              self |-> after, fetched |-> got.fetched]
        ELSE [exc |-> FALSE, val |-> Some(CrossRate(got.rates, amount[1], code)),
              self |-> after, fetched |-> got.fetched]

\* conversions made on one formatter
MaxConversions == 2

CurrencyInit ==
    /\ memory_cache = <<>>
    /\ disk = [ck \in ServiceHashedKeys |-> NoFile]
    /\ now = 0
    /\ lastOp = NoOp
    /\ lastSet = [k \in CacheKeys |-> None]
    /\ pc = IdleThreads
    /\ loc = NoLocals
    /\ svc = [kind |-> "currency", pc |-> "idle", n |-> 0, self |-> NewFormatter,
              amount |-> None, code |-> None, fetch |-> "none", result |-> None]

\* one call of convert_to_naira; fetch is what the rate service does if asked
Convert(amount, currency_code, fetch) ==
    /\ svc.kind = "currency"
    /\ svc.n < MaxConversions
    /\ LET r == ConvertToNaira(svc.self, amount, currency_code, fetch, now)
       IN  svc' = [kind |-> "currency", pc |-> IF r.exc THEN "raised" ELSE "done",
                   n |-> svc.n + 1, self |-> r.self, amount |-> amount,
                   code |-> currency_code,
                   fetch |-> IF r.fetched THEN fetch.kind ELSE "none",
                   result |-> r.val]
    /\ UNCHANGED <<memory_cache, disk, now, lastOp, lastSet, pc, loc>>

CurrencyNext ==
    \/ \E amount \in AmountInputs, code \in CodeInputs, fetch \in FetchOutcomes :
          Convert(amount, code, fetch)
    \/ Tick

SpecCurrency == CurrencyInit /\ [][CurrencyNext]_vars

----------------------------------------------------------------------------
(* Properties of the currency conversion *)

\* the code of the last conversion after `or 'NGN'` and upper()
LastCode ==
    Upper(IF svc.code = None \/ svc.code[1] = "" THEN "NGN" ELSE svc.code[1])

\* C21: convert_to_naira never raises and returns a non-null amount for every
\* non-null amount and every currency code, whatever the rate fetch does; when
\* the fetch raises, answers with an error status or a body that is not JSON, or
\* omits the naira rate, the conversion uses the hardcoded fallback rate.
C21_ConversionNeverRaises ==
    (svc.kind = "currency" /\ svc.pc # "idle") =>
        /\ svc.pc = "done"
        /\ svc.amount # None => svc.result # None
        /\ (svc.amount # None /\ svc.fetch \in {"raises", "http_error", "bad_json"})
              => svc.result = Some(Quotient(svc.amount[1] * USD_TO_NGN_FALLBACK, 1))
        /\ svc.fetch \in {"raises", "http_error", "bad_json"}
              => svc.self.rates = FallbackRates
        /\ svc.fetch = "ok" => svc.self.rates["NGN"] \in {1500, USD_TO_NGN_FALLBACK}

\* a conversion of a present dollar amount whose rate fetch raised
C21_Witness ==
    /\ svc.kind = "currency" /\ svc.pc = "done"
    /\ svc.fetch = "raises"
    /\ svc.amount = Some(100) /\ LastCode = "USD"
    /\ svc.result = Some(Quotient(100 * USD_TO_NGN_FALLBACK, 1))

----------------------------------------------------------------------------
(* core/review_generator.py: the price confidence and the purchase recommendation *)

\* RedFlagReport.has_critical_issues
has_critical_issues(report) ==
    \E i \in DOMAIN report.red_flags : report.red_flags[i] = "high"

\* a variant that counts one offer as enough for "high"
PriceConfidenceOneOffer(global_amount, price_comparison, price_naira) ==
    LET local_count == IF price_comparison # None /\ price_comparison[1].prices # <<>>
                       THEN Len(price_comparison[1].prices) ELSE 0
    IN  IF global_amount # None /\ local_count >= 1 /\ price_naira # None THEN "high"
        ELSE IF global_amount # None \/ local_count >= 1 THEN "medium"
        ELSE "low"

\* EnhancedReviewGenerator._compute_price_confidence
compute_price_confidence(global_amount, price_comparison, price_naira) ==
    LET has_global == global_amount # None
        has_local == price_comparison # None /\ price_comparison[1].prices # <<>>
        local_count == IF price_comparison # None /\ price_comparison[1].prices # <<>>
                       THEN Len(price_comparison[1].prices) ELSE 0
    IN  IF has_global /\ local_count >= 2 /\ price_naira # None THEN "high"
        ELSE IF has_global \/ has_local THEN "medium"
        ELSE "low"

\* the outcome of _compute_purchase_recommendation: the label and the reasons
Outcome(label, reason) == [label |-> label, reasons |-> <<reason>>]

\* lines 849-862: the data-quality fallback and the conservative default
DataQualityFallback(data_quality) ==
    IF data_quality = "good" THEN Outcome("buy_now", "sufficient sources")
    ELSE IF data_quality = "limited" THEN Outcome("consider_alternatives", "some coverage")
    ELSE Outcome("consider_alternatives", "insufficient data")

\* lines 840-847: the price signal
PriceSignal(price_comparison) ==
    /\ price_comparison # None
    /\ price_comparison[1].lowest_price # None
    /\ price_comparison[1].deal_quality \in {None, Some("excellent")}

\* EnhancedReviewGenerator._compute_purchase_recommendation
compute_purchase_recommendation(timing_advice, red_flag_report, price_comparison, data_quality) ==
    IF red_flag_report # None /\ has_critical_issues(red_flag_report[1])
    THEN Outcome("avoid", "critical issues")
    ELSE IF timing_advice # None /\ timing_advice[1].recommendation \in {"buy_now", "wait"}
    THEN Outcome(timing_advice[1].recommendation, "timing advice")
    ELSE IF PriceSignal(price_comparison) THEN Outcome("buy_now", "good local deal")
    ELSE DataQualityFallback(data_quality)

\* the price stated by the review, parsed: None when price_info is empty or holds
\* no number
GlobalAmounts == {None, Some(0), Some(100)}

\* the offers of the comparison at hand: unpriced, and prices whose spreads give
\* each deal quality
VerdictPrices == {None, Some(100), Some(130), Some(200)}
MaxVerdictOffers == 2
VerdictComparisons ==
    {None} \cup
    {Some(BuildComparison("p", prices, 0).val) :
        prices \in UNION {[1..n -> {RetailerPrice("jumia", "Jumia", p, 0) : p \in VerdictPrices}] :
                             n \in 0..MaxVerdictOffers}}

\* PurchaseTimingAdvice.recommendation as _generate_recommendation gives it, or
\* no advice
TimingAdvices ==
    {None} \cup {Some([recommendation |-> r]) : r \in {"buy_now", "wait", "consider_alternatives"}}

\* generate_enhanced_review lines 586-607: the naira price is the stated price
\* converted (taken here in naira), else the lowest retailer price
PriceNaira(global_amount, price_comparison) ==
    IF global_amount # None THEN Some(convert_to_naira(global_amount[1], "NGN"))
    ELSE IF price_comparison # None THEN price_comparison[1].lowest_price
    ELSE None

\* the base review and the prices are at hand
VerdictInit ==
    /\ memory_cache = <<>>
    /\ disk = [ck \in ServiceHashedKeys |-> NoFile]
    /\ now = 0
    /\ lastOp = NoOp
    /\ lastSet = [k \in CacheKeys |-> None]
    /\ pc = IdleThreads
    /\ loc = NoLocals
    /\ \E g \in GlobalAmounts, c \in VerdictComparisons, ta \in TimingAdvices,
          dq \in {"good", "limited", "poor"} :
          svc = [kind |-> "verdict", pc |-> "red_flags", global_amount |-> g,
                 price_comparison |-> c, price_naira |-> PriceNaira(g, c),
                 timing_advice |-> ta, data_quality |-> dq, red_flag_report |-> None,
                 price_confidence |-> "none", purchase_recommendation |-> "none",
                 reasons |-> <<>>]

\* lines 615-624: the red flag report, None when the analysis raises
DetectRedFlags(d, r, s, raises) ==
    /\ svc.kind = "verdict" /\ svc.pc = "red_flags"
    /\ LET report == analyze_red_flags(d, r, s)
       IN  svc' = [svc EXCEPT !.pc = "confidence",
                              !.red_flag_report =
                                  IF raises \/ report.exc THEN None ELSE Some(report.val)]
    /\ UNCHANGED <<memory_cache, disk, now, lastOp, lastSet, pc, loc>>

\* lines 644-648
PriceConfidence ==
    /\ svc.kind = "verdict" /\ svc.pc = "confidence"
    /\ svc' = [svc EXCEPT !.pc = "recommend",
                          !.price_confidence =
                              compute_price_confidence(svc.global_amount,
                                                       svc.price_comparison, svc.price_naira)]
    /\ UNCHANGED <<memory_cache, disk, now, lastOp, lastSet, pc, loc>>

\* lines 674-679
PurchaseRecommendation ==
    /\ svc.kind = "verdict" /\ svc.pc = "recommend"
    /\ LET out == compute_purchase_recommendation(svc.timing_advice, svc.red_flag_report,
                                                  svc.price_comparison, svc.data_quality)
       IN  svc' = [svc EXCEPT !.pc = "done", !.purchase_recommendation = out.label,
                              !.reasons = out.reasons]
    /\ UNCHANGED <<memory_cache, disk, now, lastOp, lastSet, pc, loc>>

VerdictNext ==
    \/ \E d \in {0, 1, 3}, r \in {0, 2}, s \in BOOLEAN, raises \in BOOLEAN :
          DetectRedFlags(d, r, s, raises)
    \/ PriceConfidence
    \/ PurchaseRecommendation

SpecVerdict == VerdictInit /\ [][VerdictNext]_vars

----------------------------------------------------------------------------
(* Properties of the price confidence and the purchase recommendation *)

\* the label has been computed
ConfidenceDone == svc.kind = "verdict" /\ svc.pc \in {"recommend", "done"}

ExplicitPrice == svc.global_amount # None
OfferCount == IF svc.price_comparison = None THEN 0 ELSE Len(svc.price_comparison[1].prices)

\* C22: the price_confidence label is 'high' exactly when both an explicit price
\* and at least 2 retailer offers are present; otherwise it is 'medium' exactly
\* when an explicit price or at least one retailer offer is present, and 'low'
\* exactly when there is neither an explicit price nor any retailer offer.
C22_PriceConfidenceLabel ==
    ConfidenceDone =>
        /\ svc.price_confidence = "high" <=> (ExplicitPrice /\ OfferCount >= 2)
        /\ svc.price_confidence = "medium" <=>
              (~(ExplicitPrice /\ OfferCount >= 2) /\ (ExplicitPrice \/ OfferCount >= 1))
        /\ svc.price_confidence = "low" <=> (~ExplicitPrice /\ OfferCount = 0)

\* the statement with 'medium' for exactly one of the two conditions (an explicit
\* price, at least 2 offers) and 'low' for neither
C22_MediumIffExactlyOne ==
    ConfidenceDone =>
        /\ svc.price_confidence = "high" <=> (ExplicitPrice /\ OfferCount >= 2)
        /\ svc.price_confidence = "medium" <=> (ExplicitPrice # (OfferCount >= 2))
        /\ (~ExplicitPrice /\ OfferCount < 2) => svc.price_confidence = "low"

\* an explicit price with two offers, labelled high
C22_Witness ==
    /\ ConfidenceDone
    /\ ExplicitPrice /\ OfferCount = 2
    /\ svc.price_confidence = "high"

\* the recommendation has been computed
VerdictDone == svc.kind = "verdict" /\ svc.pc = "done"

Critical ==
    /\ svc.red_flag_report # None
    /\ \E i \in DOMAIN svc.red_flag_report[1].red_flags :
          svc.red_flag_report[1].red_flags[i] = "high"
TimingSignal ==
    /\ svc.timing_advice # None
    /\ svc.timing_advice[1].recommendation \in {"buy_now", "wait"}
DealQuality == IF svc.price_comparison = None THEN None ELSE svc.price_comparison[1].deal_quality

\* C23: the purchase recommendation follows a fixed priority order: critical red
\* flags give 'avoid'; otherwise an explicit buy_now or wait from the timing
\* advisor is returned; otherwise 'buy_now' is given on the price signal only when
\* the local deal quality is 'excellent'; otherwise data quality decides ('good'
\* gives buy_now, anything else consider_alternatives); every outcome carries a
\* non-empty reason list.
C23_PriorityOrder ==
    VerdictDone =>
        /\ svc.reasons # <<>>
        /\ svc.purchase_recommendation =
              IF Critical THEN "avoid"
              ELSE IF TimingSignal THEN svc.timing_advice[1].recommendation
              ELSE IF DealQuality = Some("excellent") THEN "buy_now"
              ELSE IF svc.data_quality = "good" THEN "buy_now"
              ELSE "consider_alternatives"

\* C30: whenever a RedFlagReport has overall_risk_level 'high', it contains at
\* least one high-severity flag, and the purchase recommendation derived from it
\* is 'avoid', never 'buy_now'.
C30_HighRiskMeansAvoid ==
    (svc.kind = "verdict" /\ svc.red_flag_report # None
        /\ svc.red_flag_report[1].overall_risk_level = "high") =>
        /\ Critical
        /\ svc.pc = "done" => svc.purchase_recommendation = "avoid"

----------------------------------------------------------------------------
(* Properties of the orchestrator's order of steps *)

\* the orchestrator steps after the base review, as logged by the request
StepsRun ==
    SelectSeq(svc.calls,
              LAMBDA c : c \in {"images", "prices", "retailer", "analyzers", "assemble"})

\* C24: within one request the orchestrator steps run exactly once each, in the
\* order base text generation, image fetch, price comparison, recommended
\* retailer, analyzers, report assembly; the recommended retailer is computed
\* before any analyzer runs and is skipped when there is no price comparison.
C24_StepsOnceInOrder ==
    (svc.kind = "review" /\ svc.base_ok /\ svc.pc \in {"error", "done"}) =>
        StepsRun \in {<<"images", "prices", "retailer", "analyzers", "assemble">>,
                      <<"images", "prices", "analyzers", "assemble">>}

----------------------------------------------------------------------------
(* Properties of the read path and of invalidate *)

\* the last operation was a get that returned
GetReturned == lastOp.op = "get" /\ ~lastOp.raised

C29_InvalidatedKeyIsAbsent ==
    (lastOp.op = "invalidate" /\ ~lastOp.raised) =>
        \A io \in GetIO :
            LET r == CacheGet(memory_cache, disk, lastOp.key, now, io)
            IN  ~r.raised => r.ret = None

----------------------------------------------------------------------------
(* The retailer calls of one component run and the pauses between them *)

\* what a component run puts on the wire, in order: a request to a retailer's
\* site, or time.sleep(self.config.request_delay)
CallEvent(rid, outcome) == [ev |-> "call", rid |-> rid, outcome |-> outcome]
SleepEvent == [ev |-> "sleep", rid |-> "", outcome |-> ""]

\* a run of the price loop or of the retailer image loop is about to start;
\* max_images is the helper's limit (3 at its call site), scaled down
PoliteInit ==
    /\ memory_cache = <<>>
    /\ disk = [ck \in ServiceHashedKeys |-> NoFile]
    /\ now = 0
    /\ lastOp = NoOp
    /\ lastSet = [k \in CacheKeys |-> None]
    /\ pc = IdleThreads
    /\ loc = NoLocals
    /\ \E component \in {"prices", "images"}, m \in 1..MaxImages :
          svc = [kind |-> "polite", component |-> component, pc |-> "loop", idx |-> 1,
                 max_images |-> m, found |-> 0, events |-> <<>>]

\* price_service.py lines 173-182, one iteration: _fetch_retailer_price (which
\* catches every exception of its scraper and makes no request for a retailer
\* without one), then the sleep
RetailerPriceCall(outcome) ==
    /\ svc.kind = "polite" /\ svc.component = "prices" /\ svc.pc = "loop"
    /\ LET rid == NIGERIAN_RETAILERS[svc.idx]
           call == IF rid \in AdapterIds THEN <<CallEvent(rid, outcome)>> ELSE <<>>
       IN  svc' = [svc EXCEPT !.events = @ \o call \o <<SleepEvent>>,
                              !.idx = @ + 1,
                              !.pc = IF svc.idx = Len(NIGERIAN_RETAILERS) THEN "done"
                                     ELSE "loop"]
    /\ UNCHANGED <<memory_cache, disk, now, lastOp, lastSet, pc, loc>>

\* scraping.py lines 535-561, one iteration: the break when enough images are
\* collected, else the request; accepted is the number of images the page adds
\* (0 when the request raises)
RetailerImageCall(accepted) ==
    /\ svc.kind = "polite" /\ svc.component = "images" /\ svc.pc = "loop"
    /\ svc' = IF svc.found >= svc.max_images
              THEN [svc EXCEPT !.pc = "done"]
              ELSE [svc EXCEPT
                      !.events = Append(@, CallEvent(NIGERIAN_RETAILERS[svc.idx], accepted)),
                      !.found = IF @ + accepted > svc.max_images THEN svc.max_images
                                ELSE @ + accepted,
                      !.idx = @ + 1,
                      !.pc = IF svc.idx = Len(NIGERIAN_RETAILERS) THEN "done" ELSE "loop"]
    /\ UNCHANGED <<memory_cache, disk, now, lastOp, lastSet, pc, loc>>

PoliteNext ==
    \/ \E outcome \in {"offer", "no_product", "raises"} : RetailerPriceCall(outcome)
    \/ \E accepted \in 0..MaxImages : RetailerImageCall(accepted)

SpecPolite == PoliteInit /\ [][PoliteNext]_vars

\* C27: within one request, between any two successive retailer network calls
\* issued by the Retailer Price Aggregator or the Image Relevance Engine, the
\* fixed polite delay elapses; no two retailer calls are issued back to back.
C27_DelayBetweenRetailerCalls ==
    svc.kind = "polite" =>
        \A i \in DOMAIN svc.events :
            (i > 1 /\ svc.events[i].ev = "call") => svc.events[i - 1].ev = "sleep"

----------------------------------------------------------------------------
(* Properties of the write-back of get_price_comparison *)

\* what a lookup of the call's key whose file operations succeed finds
HeldFor(mem, dsk, call, t) == CacheGet(mem, dsk, call.key[1], t, "ok").ret

\* C26: when a cache-miss get_price_comparison returns, the cache holds the
\* returned comparison under the call's key if and only if at least one offer was
\* collected; when no offer was collected the call leaves both tiers as they
\* were, and (its own lookup having met no fault) a lookup of the key finds
\* nothing, so the next call for the key, when it directly follows, goes to the
\* retailer loop again.
C26_CachedIffOffersCollected ==
    [][/\ (svc.kind = "price" /\ svc.pc = "stats" /\ svc'.pc = "done") =>
             LET held == HeldFor(memory_cache', disk', svc', now')
                 offers == svc'.result[1].prices
             IN  /\ (held = Some(ComparisonToJson(svc'.result[1]))) <=> (offers # <<>>)
                 /\ offers = <<>> => (memory_cache' = memory_cache /\ disk' = disk)
                 /\ (offers = <<>> /\ svc.io_ok) => held = None
       /\ (/\ svc.kind = "price" /\ svc.pc = "done"
           /\ Len(svc.log) = Len(NIGERIAN_RETAILERS) /\ svc.result[1].prices = <<>>
           /\ svc.io_ok
           /\ svc'.n = svc.n + 1 /\ svc'.kind = "price" /\ svc'.key = svc.key
           /\ svc'.io_ok) => svc'.pc = "fetch"]_vars

\* a miss that collected offers has returned and a lookup of its key finds the
\* comparison it returned
C26_Witness ==
    /\ svc.kind = "price" /\ svc.pc = "done"
    /\ Len(svc.log) = Len(NIGERIAN_RETAILERS)
    /\ svc.result[1].prices # <<>>
    /\ HeldFor(memory_cache, disk, svc, now) = Some(ComparisonToJson(svc.result[1]))

----------------------------------------------------------------------------
(* core/gadget_detector.py and the trade-in options of the net-price analyzer *)

\* GADGET_CATEGORIES in dictionary order, with the keywords that occur in the
\* product names used here
GADGET_CATEGORIES ==
    << [category |-> "phone", keywords |-> {"iphone", "galaxy", "smartphone"}],
       [category |-> "laptop", keywords |-> {"laptop", "macbook"}],
       [category |-> "tablet", keywords |-> {"ipad", "tablet"}],
       [category |-> "tv", keywords |-> {"tv", "television"}],
       [category |-> "camera", keywords |-> {"camera", "dslr"}],
       [category |-> "smartwatch", keywords |-> {"smartwatch", "apple watch"}],
       [category |-> "gaming", keywords |-> {"playstation", "xbox", "ps5"}] >>

\* the keywords that are substrings of the lower-cased product name
KeywordsIn(product_name) ==
    CASE product_name = "iphone 15" -> {"iphone"}
      [] product_name = "ps5 console" -> {"ps5"}
      [] OTHER -> {}

\* detect_gadget_category: the first category with a keyword in the name
detect_gadget_category(product_name) ==
    LET hits == {i \in 1..Len(GADGET_CATEGORIES) :
                     GADGET_CATEGORIES[i].keywords \cap KeywordsIn(product_name) # {}}
    IN  IF hits = {} THEN None
        ELSE Some(GADGET_CATEGORIES[CHOOSE i \in hits : \A j \in hits : i <= j].category)

\* the categories with a trade-in market (the "Valid Categories" of the prompt)
TradeInCategories == {"phone", "laptop", "tablet", "gaming", "smartwatch", "camera"}

TradeInEligible(product_name) ==
    LET category == detect_gadget_category(product_name)
    IN  category # None /\ category[1] \in TradeInCategories

NetPriceDone ==
    svc.kind = "analyze" /\ svc.entry = "calculate_net_price" /\ svc.pc = "done"

\* C28: for a product whose category is not trade-in eligible the net-price
\* analyzer returns an empty result whatever the chat completion replies; it
\* returns options only for eligible categories, and every returned option has a
\* non-negative net price.
C28_NoOptionsForIneligibleCategory ==
    NetPriceDone =>
        /\ ~TradeInEligible(svc.inputs[1]) => svc.result.upgrade_from = <<>>
        /\ \A i \in 1..Len(svc.result.upgrade_from) :
               svc.result.upgrade_from[i].net_price >= 0

====
